---- MODULE Spec2Model ----
(***************************************************************************)
(* A model of the gooctranspoapi client: the rate-limited request          *)
(* dispatchers, the tabular (GTFS) option handling, and the cooking of     *)
(* decoded SOAP responses into domain values.                              *)
(*                                                                         *)
(* Conventions.  A Go pointer or error is a sequence of length at most 1:  *)
(* <<>> is nil and <<x>> points at x.  A wire text that the code parses    *)
(* (numbers, booleans, timestamps) is a sequence of one-character strings, *)
(* so that the parsers can be modelled character by character; a text      *)
(* that the code only copies or compares is a TLA+ string.                 *)
(***************************************************************************)
EXTENDS Integers, Sequences, FiniteSets, TLC

\* ------------------------------------------------------------------ bounds
\* longest parsed wire text that is enumerated exhaustively
MaxText == 3
\* most route-directions (or routes) in one response
MaxRoutes == 2
\* most trips in one route-direction (or route)
MaxTrips == 2
\* most rows in one GTFS table
MaxRows == 2

Nil == <<>>
Ptr(x) == <<x>>
Min(a, b) == IF a < b THEN a ELSE b

\* ------------------------------------------------------------- wire texts
Digits == {"0", "1", "2", "3", "4", "5", "6", "7", "8", "9"}
\* alphabet of the exhaustively enumerated texts
Chars == {"0", "1", "-", ".", "e", "t"}

Texts == UNION {[1..n -> Chars] : n \in 0..MaxText}

DigitChar(d) ==
  CASE d = 0 -> "0" [] d = 1 -> "1" [] d = 2 -> "2" [] d = 3 -> "3"
    [] d = 4 -> "4" [] d = 5 -> "5" [] d = 6 -> "6" [] d = 7 -> "7"
    [] d = 8 -> "8" [] d = 9 -> "9"

DigitVal(ch) == CHOOSE d \in 0..9 : DigitChar(d) = ch

\* the text whose characters are the given decimal digits
D(ds) == [i \in 1..Len(ds) |-> DigitChar(ds[i])]

AllDigits(s) == \A i \in 1..Len(s) : s[i] \in Digits

RECURSIVE DigitsVal(_)
DigitsVal(s) ==
  IF s = <<>> THEN 0
  ELSE DigitsVal(SubSeq(s, 1, Len(s) - 1)) * 10 + DigitVal(s[Len(s)])

\* first position of s holding a character of cs, or 0
IndexOf(s, cs) ==
  IF \E i \in 1..Len(s) : s[i] \in cs
  THEN CHOOSE i \in 1..Len(s) : s[i] \in cs /\ \A j \in 1..(i - 1) : s[j] \notin cs
  ELSE 0

\* ------------------------------------------------------- strconv parsers
SyntaxErr(fn) == Ptr([kind |-> "parse", msg |-> fn])

\* strconv.Atoi: an optional sign followed by one or more decimal digits
Atoi(s) ==
  LET signed == Len(s) > 0 /\ s[1] \in {"-", "+"}
      ds == IF signed THEN SubSeq(s, 2, Len(s)) ELSE s
  IN IF Len(ds) = 0 \/ ~AllDigits(ds)
     THEN [val |-> 0, err |-> SyntaxErr("strconv.Atoi")]
     ELSE [val |-> IF signed /\ s[1] = "-" THEN 0 - DigitsVal(ds) ELSE DigitsVal(ds),
           err |-> Nil]

\* strconv.ParseBool: exactly the twelve accepted spellings
ParseBool(s) ==
  IF s \in {<<"1">>, <<"t">>, <<"T">>, <<"T", "R", "U", "E">>,
            <<"t", "r", "u", "e">>, <<"T", "r", "u", "e">>}
  THEN [val |-> TRUE, err |-> Nil]
  ELSE IF s \in {<<"0">>, <<"f">>, <<"F">>, <<"F", "A", "L", "S", "E">>,
                 <<"f", "a", "l", "s", "e">>, <<"F", "a", "l", "s", "e">>}
  THEN [val |-> FALSE, err |-> Nil]
  ELSE [val |-> FALSE, err |-> SyntaxErr("strconv.ParseBool")]

\* a float64 is kept as the decimal m * 10^e with m free of trailing zeros
RECURSIVE Norm(_, _)
Norm(m, e) ==
  IF m = 0 THEN [m |-> 0, e |-> 0]
  ELSE IF m % 10 = 0 THEN Norm(m \div 10, e + 1)
  ELSE [m |-> m, e |-> e]

FloatZero == [m |-> 0, e |-> 0]

\* strconv.ParseFloat(s, 64) on decimal texts: sign, digits with at most
\* one point, at least one digit, then an optional exponent with at least
\* one digit; the whole text must be consumed.  (Hexadecimal, "inf", "nan"
\* and range overflow need characters or lengths outside Chars/MaxText.)
ParseFloat(s) ==
  LET bad == [val |-> FloatZero, err |-> SyntaxErr("strconv.ParseFloat")]
      neg == Len(s) > 0 /\ s[1] = "-"
      number(ip, fp, hasExp, ex) ==
        IF ~AllDigits(ip) \/ ~AllDigits(fp) \/ Len(ip) + Len(fp) = 0 THEN bad
        ELSE IF hasExp /\ ex.err # Nil THEN bad
        ELSE [val |-> Norm((IF neg THEN 0 - 1 ELSE 1) * DigitsVal(ip \o fp),
                           (IF hasExp THEN ex.val ELSE 0) - Len(fp)),
              err |-> Nil]
      mantissa(mant, dot, hasExp, ex) ==
        number(IF dot = 0 THEN mant ELSE SubSeq(mant, 1, dot - 1),
               IF dot = 0 THEN <<>> ELSE SubSeq(mant, dot + 1, Len(mant)),
               hasExp, ex)
      exponent(mant, expo, hasExp) ==
        mantissa(mant, IndexOf(mant, {"."}), hasExp, Atoi(expo))
      unsigned(body, ePos) ==
        exponent(IF ePos = 0 THEN body ELSE SubSeq(body, 1, ePos - 1),
                 IF ePos = 0 THEN <<>> ELSE SubSeq(body, ePos + 1, Len(body)),
                 ePos # 0)
      signed(body) == unsigned(body, IndexOf(body, {"e", "E"}))
  IN signed(IF Len(s) > 0 /\ s[1] \in {"-", "+"} THEN SubSeq(s, 2, Len(s)) ELSE s)

\* ------------------------------------------------ Error-Code Interpreter
APIError(text) == Ptr([kind |-> "domain", msg |-> text])

\* variant: the "Invalid route number" case is missing
checkErrorCode_NoRouteCase(errorText) ==
  CASE errorText = "1" ->
         [text |-> "", err |-> APIError("error returned from API - Invalid API key")]
    [] errorText = "2" ->
         [text |-> "", err |-> APIError("error returned from API - Unable to query data source")]
    [] errorText = "10" ->
         [text |-> "", err |-> APIError("error returned from API - Invalid stop number")]
    [] errorText = "12" ->
         [text |-> "", err |-> APIError("error returned from API - Stop does not service route")]
    [] OTHER -> [text |-> errorText, err |-> Nil]

checkErrorCode(errorText) ==
  CASE errorText = "1" ->
         [text |-> "", err |-> APIError("error returned from API - Invalid API key")]
    [] errorText = "2" ->
         [text |-> "", err |-> APIError("error returned from API - Unable to query data source")]
    [] errorText = "10" ->
         [text |-> "", err |-> APIError("error returned from API - Invalid stop number")]
    [] errorText = "11" ->
         [text |-> "", err |-> APIError("error returned from API - Invalid route number")]
    [] errorText = "12" ->
         [text |-> "", err |-> APIError("error returned from API - Stop does not service route")]
    [] OTHER -> [text |-> errorText, err |-> Nil]

\* ---------------------------------------------------------- rawXMLTrip
\* encoding/xml leaves a string field at "" when its element is missing
xmlText(w) == IF w.present THEN w.text ELSE <<>>

TripFields == {"AdjustedScheduleTime", "AdjustmentAge", "LastTripOfSchedule",
               "Latitude", "Longitude", "GPSSpeed"}

\* decoding one <Trip> element into a rawXMLTrip
decodeTrip(w) ==
  [TripDestination      |-> w.TripDestination,
   TripStartTime        |-> w.TripStartTime,
   AdjustedScheduleTime |-> xmlText(w.AdjustedScheduleTime),
   AdjustmentAge        |-> xmlText(w.AdjustmentAge),
   LastTripOfSchedule   |-> xmlText(w.LastTripOfSchedule),
   BusType              |-> w.BusType,
   Latitude             |-> xmlText(w.Latitude),
   Longitude            |-> xmlText(w.Longitude),
   GPSSpeed             |-> xmlText(w.GPSSpeed)]

\* the zero Trip{}
ZeroTrip ==
  [TripDestination      |-> "",
   TripStartTime        |-> "",
   AdjustedScheduleTime |-> 0,
   AdjustmentAge        |-> FloatZero,
   LastTripOfSchedule   |-> [Set |-> FALSE, Value |-> FALSE],
   BusType              |-> "",
   Latitude             |-> [Set |-> FALSE, Value |-> FloatZero],
   Longitude            |-> [Set |-> FALSE, Value |-> FloatZero],
   GPSSpeed             |-> [Set |-> FALSE, Value |-> FloatZero]]

\* variant: a text that does not parse is taken as absent
optionalFloat_Lenient(text) ==
  LET parsed(p) == IF p.err # Nil THEN [f |-> [Set |-> FALSE, Value |-> FloatZero], err |-> Nil]
                   ELSE [f |-> [Set |-> TRUE, Value |-> p.val], err |-> Nil]
  IN IF text = <<>> THEN [f |-> [Set |-> FALSE, Value |-> FloatZero], err |-> Nil]
     ELSE parsed(ParseFloat(text))

\* one optional float field: empty text is absent, otherwise it must parse
optionalFloat(text) ==
  LET parsed(p) == IF p.err # Nil THEN [f |-> [Set |-> FALSE, Value |-> FloatZero], err |-> p.err]
                   ELSE [f |-> [Set |-> TRUE, Value |-> p.val], err |-> Nil]
  IN IF text = <<>> THEN [f |-> [Set |-> FALSE, Value |-> FloatZero], err |-> Nil]
     ELSE parsed(ParseFloat(text))

\* variant: an absent flag keeps the value true
optionalBool_Stale(text) ==
  IF text = <<>> THEN [f |-> [Set |-> FALSE, Value |-> TRUE], err |-> Nil]
  ELSE LET p == ParseBool(text)
       IN IF p.err # Nil THEN [f |-> [Set |-> FALSE, Value |-> FALSE], err |-> p.err]
          ELSE [f |-> [Set |-> TRUE, Value |-> p.val], err |-> Nil]

\* the optional flag: "LastTripOfSchedule{Set: false}" for empty text,
\* otherwise it must parse
optionalBool(text) ==
  IF text = <<>> THEN [f |-> [Set |-> FALSE, Value |-> FALSE], err |-> Nil]
  ELSE LET p == ParseBool(text)
       IN IF p.err # Nil THEN [f |-> [Set |-> FALSE, Value |-> FALSE], err |-> p.err]
          ELSE [f |-> [Set |-> TRUE, Value |-> p.val], err |-> Nil]

\* rawXMLTrip.convert: returns the Trip built so far together with the error
convert(t) ==
  LET result(pAdjustedScheduleTime, pAdjustmentAge, pLastTripOfSchedule,
             pLatitude, pLongitude, pGPSSpeed) ==
        LET ct0 == [ZeroTrip EXCEPT !.TripDestination = t.TripDestination,
                                    !.TripStartTime = t.TripStartTime]
            ct1 == [ct0 EXCEPT !.AdjustedScheduleTime = pAdjustedScheduleTime.val]
            ct2 == [ct1 EXCEPT !.AdjustmentAge = pAdjustmentAge.val]
            ct3 == [ct2 EXCEPT !.LastTripOfSchedule = pLastTripOfSchedule.f,
                               !.BusType = t.BusType]
            ct4 == [ct3 EXCEPT !.Latitude = pLatitude.f]
            ct5 == [ct4 EXCEPT !.Longitude = pLongitude.f]
            ct6 == [ct5 EXCEPT !.GPSSpeed = pGPSSpeed.f]
        IN IF pAdjustedScheduleTime.err # Nil
             THEN [ct |-> ct0, err |-> pAdjustedScheduleTime.err]
           ELSE IF pAdjustmentAge.err # Nil THEN [ct |-> ct1, err |-> pAdjustmentAge.err]
           ELSE IF pLastTripOfSchedule.err # Nil
             THEN [ct |-> ct2, err |-> pLastTripOfSchedule.err]
           ELSE IF pLatitude.err # Nil THEN [ct |-> ct3, err |-> pLatitude.err]
           ELSE IF pLongitude.err # Nil THEN [ct |-> ct4, err |-> pLongitude.err]
           ELSE IF pGPSSpeed.err # Nil THEN [ct |-> ct5, err |-> pGPSSpeed.err]
           ELSE [ct |-> ct6, err |-> Nil]
  IN result(Atoi(t.AdjustedScheduleTime), ParseFloat(t.AdjustmentAge),
            optionalBool(t.LastTripOfSchedule), optionalFloat(t.Latitude),
            optionalFloat(t.Longitude), optionalFloat(t.GPSSpeed))

\* variant: a trip that fails to convert is skipped
RECURSIVE convertTrips_Skip(_, _, _)
convertTrips_Skip(trips, i, acc) ==
  IF i > Len(trips) THEN [Trips |-> acc, err |-> Nil]
  ELSE LET step(c) == IF c.err # Nil THEN convertTrips_Skip(trips, i + 1, acc)
                      ELSE convertTrips_Skip(trips, i + 1, Append(acc, c.ct))
       IN step(convert(trips[i]))

\* the loop "for _, t := range Trips.Trip { ct, err := t.convert() ... append }"
\* from position i on; stops at the first error
RECURSIVE convertTrips(_, _, _)
convertTrips(trips, i, acc) ==
  IF i > Len(trips) THEN [Trips |-> acc, err |-> Nil]
  ELSE LET step(c) == IF c.err # Nil THEN [Trips |-> <<>>, err |-> c.err]
                      ELSE convertTrips(trips, i + 1, Append(acc, c.ct))
       IN step(convert(trips[i]))

\* ------------------------------------------------- time.ParseInLocation
Toronto == "America/Toronto"

isLeap(year) == year % 4 = 0 /\ (year % 100 # 0 \/ year % 400 = 0)

daysIn(month, year) ==
  IF month = 2 THEN (IF isLeap(year) THEN 29 ELSE 28)
  ELSE IF month \in {4, 6, 9, 11} THEN 30 ELSE 31

ZeroTime == [year |-> 1, month |-> 1, day |-> 1, hour |-> 0, min |-> 0,
             sec |-> 0, frac |-> FloatZero, loc |-> "UTC"]

\* variant: the zone of the host is used
LoadLocation_Local(tzdata) == [loc |-> "Local", err |-> Nil]

\* time.LoadLocation("America/Toronto"): fails when the host has no zone
\* database entry for the name
LoadLocation(tzdata) ==
  IF tzdata THEN [loc |-> Toronto, err |-> Nil]
  ELSE [loc |-> "UTC", err |-> Ptr([kind |-> "parse", msg |-> "unknown time zone"])]

\* time.ParseInLocation("20060102150405", value, loc): four year digits,
\* then two digits each for month, day, hour, minute and second, each in
\* range; after the seconds the parser also accepts a fractional second
\* ("." or "," and digits) although the layout has none; anything else
\* left over is "extra text"
ParseInLocation(value, loc) ==
  LET bad == [val |-> ZeroTime, err |-> Ptr([kind |-> "parse", msg |-> "time.Parse"])]
      core == SubSeq(value, 1, 14)
      rest == SubSeq(value, 15, Len(value))
      num(a, b) == DigitsVal(SubSeq(value, a, b))
      year == num(1, 4)
      month == num(5, 6)
      day == num(7, 8)
      hour == num(9, 10)
      min == num(11, 12)
      sec == num(13, 14)
      fr == SubSeq(rest, 2, Len(rest))
  IN IF Len(value) < 14 \/ ~AllDigits(core) THEN bad
     ELSE IF month < 1 \/ month > 12 \/ hour > 23 \/ min > 59 \/ sec > 59 THEN bad
     ELSE IF rest # <<>> /\ ~(rest[1] \in {".", ","} /\ Len(fr) > 0 /\ AllDigits(fr)) THEN bad
     ELSE IF day < 1 \/ day > daysIn(month, year) THEN bad
     ELSE [val |-> [year |-> year, month |-> month, day |-> day, hour |-> hour,
                    min |-> min, sec |-> sec,
                    frac |-> Norm(DigitsVal(fr), 0 - Len(fr)), loc |-> loc],
           err |-> Nil]

\* ------------------------------------------------------ Cooking Pipeline
\* variant: the heading of a route is filled with its direction
RECURSIVE cookRoutes_Direction(_, _, _)
cookRoutes_Direction(routes, i, acc) ==
  IF i > Len(routes) THEN acc
  ELSE cookRoutes_Direction(routes, i + 1,
                  Append(acc, [RouteNo      |-> routes[i].RouteNo,
                               DirectionID  |-> routes[i].DirectionID,
                               Direction    |-> routes[i].Direction,
                               RouteHeading |-> routes[i].Direction]))

\* the loop over Route of (d *rawRouteSummaryForStop) cook, from position i on
RECURSIVE cookRoutes(_, _, _)
cookRoutes(routes, i, acc) ==
  IF i > Len(routes) THEN acc
  ELSE cookRoutes(routes, i + 1,
                  Append(acc, [RouteNo      |-> routes[i].RouteNo,
                               DirectionID  |-> routes[i].DirectionID,
                               Direction    |-> routes[i].Direction,
                               RouteHeading |-> routes[i].RouteHeading]))

\* (d *rawRouteSummaryForStop) cook
rawRouteSummaryForStop_cook(d) ==
  LET ec == checkErrorCode(d.Error)
  IN IF ec.err # Nil THEN [val |-> Nil, err |-> ec.err]
     ELSE [val |-> Ptr([StopNo          |-> d.StopNo,
                        StopDescription |-> d.StopDescription,
                        Error           |-> ec.text,
                        Routes          |-> cookRoutes(d.Route, 1, <<>>)]),
           err |-> Nil]

\* variant: the Error of a route-direction is copied without interpretation
RECURSIVE cookRouteDirections_RawError(_, _, _, _)
cookRouteDirections_RawError(rds, i, acc, tzdata) ==
  IF i > Len(rds) THEN [RouteDirections |-> acc, err |-> Nil]
  ELSE LET rd == rds[i]
           fail(e) == [RouteDirections |-> <<>>, err |-> e]
           step(tz, parsedProcessingTime, ts) ==
             IF tz.err # Nil THEN fail(tz.err)
             ELSE IF parsedProcessingTime.err # Nil THEN fail(parsedProcessingTime.err)
             ELSE IF ts.err # Nil THEN fail(ts.err)
             ELSE cookRouteDirections_RawError(rds, i + 1,
                    Append(acc, [RouteNo               |-> rd.RouteNo,
                                 RouteLabel            |-> rd.RouteLabel,
                                 Direction             |-> rd.Direction,
                                 Error                 |-> rd.Error,
                                 RequestProcessingTime |-> parsedProcessingTime.val,
                                 Trips                 |-> ts.Trips]),
                    tzdata)
       IN step(LoadLocation(tzdata),
               ParseInLocation(rd.RequestProcessingTime, LoadLocation(tzdata).loc),
               convertTrips(rd.Trips, 1, <<>>))

\* the loop over RouteDirection of (d *rawNextTripsForStop) cook, from
\* position i on
RECURSIVE cookRouteDirections(_, _, _, _)
cookRouteDirections(rds, i, acc, tzdata) ==
  IF i > Len(rds) THEN [RouteDirections |-> acc, err |-> Nil]
  ELSE LET rd == rds[i]
           fail(e) == [RouteDirections |-> <<>>, err |-> e]
           step(ec, tz, parsedProcessingTime, ts) ==
             IF ec.err # Nil THEN fail(ec.err)
             ELSE IF tz.err # Nil THEN fail(tz.err)
             ELSE IF parsedProcessingTime.err # Nil THEN fail(parsedProcessingTime.err)
             ELSE IF ts.err # Nil THEN fail(ts.err)
             ELSE cookRouteDirections(rds, i + 1,
                    Append(acc, [RouteNo               |-> rd.RouteNo,
                                 RouteLabel            |-> rd.RouteLabel,
                                 Direction             |-> rd.Direction,
                                 Error                 |-> ec.text,
                                 RequestProcessingTime |-> parsedProcessingTime.val,
                                 Trips                 |-> ts.Trips]),
                    tzdata)
       IN step(checkErrorCode(rd.Error), LoadLocation(tzdata),
               ParseInLocation(rd.RequestProcessingTime, LoadLocation(tzdata).loc),
               convertTrips(rd.Trips, 1, <<>>))

\* variant: the route-directions are cooked before the top-level Error is
\* looked at
rawNextTripsForStop_cook_RoutesFirst(d, tzdata) ==
  LET result(ec, rds) ==
        IF rds.err # Nil THEN [val |-> Nil, err |-> rds.err]
        ELSE IF ec.err # Nil THEN [val |-> Nil, err |-> ec.err]
        ELSE [val |-> Ptr([StopNo          |-> d.StopNo,
                           StopLabel       |-> d.StopLabel,
                           Error           |-> ec.text,
                           RouteDirections |-> rds.RouteDirections]),
              err |-> Nil]
  IN result(checkErrorCode(d.Error), cookRouteDirections(d.RouteDirection, 1, <<>>, tzdata))

\* (d *rawNextTripsForStop) cook
rawNextTripsForStop_cook(d, tzdata) ==
  LET result(ec, rds) ==
        IF ec.err # Nil THEN [val |-> Nil, err |-> ec.err]
        ELSE IF rds.err # Nil THEN [val |-> Nil, err |-> rds.err]
        ELSE [val |-> Ptr([StopNo          |-> d.StopNo,
                           StopLabel       |-> d.StopLabel,
                           Error           |-> ec.text,
                           RouteDirections |-> rds.RouteDirections]),
              err |-> Nil]
  IN result(checkErrorCode(d.Error), cookRouteDirections(d.RouteDirection, 1, <<>>, tzdata))

\* variant: each route is put in front of the routes cooked so far
RECURSIVE cookRoutesWithTrips_Prepend(_, _, _)
cookRoutesWithTrips_Prepend(routes, i, acc) ==
  IF i > Len(routes) THEN [Routes |-> acc, err |-> Nil]
  ELSE LET rt == routes[i]
           step(ts) ==
             IF ts.err # Nil THEN [Routes |-> <<>>, err |-> ts.err]
             ELSE cookRoutesWithTrips_Prepend(routes, i + 1,
                    <<[RouteNo      |-> rt.RouteNo,
                       DirectionID  |-> rt.DirectionID,
                       Direction    |-> rt.Direction,
                       RouteHeading |-> rt.RouteHeading,
                       Trips        |-> ts.Trips]>> \o acc)
       IN step(convertTrips(rt.Trips, 1, <<>>))

\* the loop over Route of (d *rawNextTripsForStopAllRoutes) cook
RECURSIVE cookRoutesWithTrips(_, _, _)
cookRoutesWithTrips(routes, i, acc) ==
  IF i > Len(routes) THEN [Routes |-> acc, err |-> Nil]
  ELSE LET rt == routes[i]
           step(ts) ==
             IF ts.err # Nil THEN [Routes |-> <<>>, err |-> ts.err]
             ELSE cookRoutesWithTrips(routes, i + 1,
                    Append(acc, [RouteNo      |-> rt.RouteNo,
                                 DirectionID  |-> rt.DirectionID,
                                 Direction    |-> rt.Direction,
                                 RouteHeading |-> rt.RouteHeading,
                                 Trips        |-> ts.Trips]))
       IN step(convertTrips(rt.Trips, 1, <<>>))

\* (d *rawNextTripsForStopAllRoutes) cook
rawNextTripsForStopAllRoutes_cook(d) ==
  LET result(ec, rts) ==
        IF ec.err # Nil THEN [val |-> Nil, err |-> ec.err]
        ELSE IF rts.err # Nil THEN [val |-> Nil, err |-> rts.err]
        ELSE [val |-> Ptr([StopNo          |-> d.StopNo,
                           StopDescription |-> d.StopDescription,
                           Error           |-> ec.text,
                           Routes          |-> rts.Routes]),
              err |-> Nil]
  IN result(checkErrorCode(d.Error), cookRoutesWithTrips(d.Route, 1, <<>>))

\* ------------------------------------------------------ decoding (XML)
decodeTrips(ws) == [i \in 1..Len(ws) |-> decodeTrip(ws[i])]

\* the RouteDirection elements of a GetNextTripsForStop envelope
decodeRouteDirection(w) ==
  [RouteNo               |-> w.RouteNo,
   RouteLabel            |-> w.RouteLabel,
   Direction             |-> w.Direction,
   Error                 |-> w.Error,
   RequestProcessingTime |-> xmlText(w.RequestProcessingTime),
   Trips                 |-> decodeTrips(w.Trips)]

decodeNextTripsForStop(doc) ==
  [StopNo         |-> doc.StopNo,
   StopLabel      |-> doc.StopLabel,
   Error          |-> doc.Error,
   RouteDirection |-> [i \in 1..Len(doc.RouteDirection) |->
                         decodeRouteDirection(doc.RouteDirection[i])]]

decodeRouteWithTrips(w) ==
  [RouteNo      |-> w.RouteNo,
   DirectionID  |-> w.DirectionID,
   Direction    |-> w.Direction,
   RouteHeading |-> w.RouteHeading,
   Trips        |-> decodeTrips(w.Trips)]

decodeNextTripsForStopAllRoutes(doc) ==
  [StopNo          |-> doc.StopNo,
   StopDescription |-> doc.StopDescription,
   Error           |-> doc.Error,
   Route           |-> [i \in 1..Len(doc.Route) |-> decodeRouteWithTrips(doc.Route[i])]]

decodeRouteSummaryForStop(doc) ==
  [StopNo          |-> doc.StopNo,
   StopDescription |-> doc.StopDescription,
   Error           |-> doc.Error,
   Route           |-> doc.Route]

\* ------------------------------------------------------ response inputs
Here(text) == [present |-> TRUE, text |-> text]
Missing == [present |-> FALSE, text |-> <<>>]

\* the first trip of TestGetNextTripsForStop, numbers shortened
BaseTrip ==
  [TripDestination      |-> "Millennium",
   TripStartTime        |-> "11:00",
   AdjustedScheduleTime |-> Here(<<"1", "2">>),
   AdjustmentAge        |-> Here(<<"0", ".", "4", "4">>),
   LastTripOfSchedule   |-> Here(<<"f", "a", "l", "s", "e">>),
   BusType              |-> "4EB - DD",
   Latitude             |-> Here(<<"4", "5", ".", "4">>),
   Longitude            |-> Here(<<"-", "7", "5", ".", "7">>),
   GPSSpeed             |-> Here(<<"1", "5", ".", "9">>)]

\* a trip without the optional elements, as in TestGetNextTripsForStopAllRoutes
BareTrip ==
  [BaseTrip EXCEPT !.TripDestination = "LeBreton", !.TripStartTime = "13:01",
                   !.LastTripOfSchedule = Missing, !.Latitude = Here(<<>>),
                   !.Longitude = Here(<<>>), !.GPSSpeed = Missing]

BadMandatoryTrip == [BaseTrip EXCEPT !.TripDestination = "Bad", !.AdjustmentAge = Here(<<"e">>)]
BadOptionalTrip == [BaseTrip EXCEPT !.TripDestination = "Odd", !.Longitude = Here(<<"-">>)]

TripSamples == {BaseTrip, BareTrip, BadMandatoryTrip, BadOptionalTrip}

\* texts tried in every combination over the four optional trip fields
FieldTexts == {<<>>, <<"1">>, <<"t">>, <<"1", ".", "1">>, <<"e">>}

\* texts of the two mandatory fields tried together with them
MandatoryTexts == {<<<<"1">>, <<"1">>>>, <<<<>>, <<"1">>>>, <<<<"1">>, <<"e">>>>}

TripInputs ==
  {[BaseTrip EXCEPT !.AdjustedScheduleTime = Here(ab[1]), !.AdjustmentAge = Here(ab[2]),
                    !.LastTripOfSchedule = Here(c), !.Latitude = Here(d),
                    !.Longitude = Here(e), !.GPSSpeed = Here(f)] :
      ab \in MandatoryTexts, c \in FieldTexts,
      d \in FieldTexts, e \in FieldTexts, f \in FieldTexts}
  \cup {[BaseTrip EXCEPT ![fld] = Here(t)] : fld \in TripFields, t \in Texts}
  \cup {[BaseTrip EXCEPT ![fld] = Missing] : fld \in TripFields}
  \cup TripSamples

\* the sequences over S of length at most n
SeqsUpTo(S, n) == UNION {[1..k -> S] : k \in 0..n}

\* the sequences of length at most n with one element of V at any position
\* and elements of F at the others, and the sequences over F alone
WithOne(V, F, n) ==
  SeqsUpTo(F, n)
  \cup UNION {{[i \in 1..k |-> IF i = p THEN v ELSE f[i]] :
                p \in 1..k, v \in V, f \in [1..k -> F]} : k \in 1..n}

ErrorTexts == {"", "0", "1", "2", "3", "9", "01", "10", "11", "12", "13", "100",
               " 1", "1 ", "-1", "one", "TestErrorStringHere"}

TopErrors == {"", "10", "TestErrorStringHere"}
RouteErrors == {"", "12", "TestRouteDirectionErrorHere"}

GoodTime == Here(D(<<2, 0, 1, 8, 0, 8, 3, 1, 1, 1, 4, 0, 4, 2>>))
TimeSamples == {GoodTime, Here(D(<<2, 0, 1, 8, 0, 8, 3, 1>>)), Missing}

RouteDirectionInput(e, t, trips) ==
  [RouteNo |-> "94", RouteLabel |-> "Millennium", Direction |-> "Westbound",
   Error |-> e, RequestProcessingTime |-> t, Trips |-> trips]

\* route-directions that vary the error and the timestamp
RouteDirectionsA ==
  {RouteDirectionInput(e, t, trips) :
     e \in RouteErrors, t \in TimeSamples, trips \in {<<>>, <<BaseTrip>>}}

\* route-directions that vary the trips
RouteDirectionsB ==
  {RouteDirectionInput("", GoodTime, trips) : trips \in SeqsUpTo(TripSamples, MaxTrips)}
  \cup {RouteDirectionInput("12", GoodTime, <<>>)}

\* the route directions that surround one of RouteDirectionsB
RouteDirectionsC ==
  {RouteDirectionInput("", GoodTime, <<BaseTrip>>),
   RouteDirectionInput("", GoodTime, <<BadOptionalTrip>>)}

\* texts of RequestProcessingTime: the one of the test, no text, too short,
\* a letter, a month, a day and an hour out of range, a fractional second,
\* text after the seconds, a fifteenth digit
TimeTexts ==
  {GoodTime, Missing, Here(<<>>),
   Here(D(<<2, 0, 1, 8, 0, 8, 3, 1, 1, 1, 4, 0, 4>>)),
   Here(D(<<2, 0, 1, 8, 0, 8, 3, 1, 1, 1, 4, 0, 4>>) \o <<"x">>),
   Here(D(<<2, 0, 1, 8, 1, 3, 3, 1, 1, 1, 4, 0, 4, 2>>)),
   Here(D(<<2, 0, 1, 8, 0, 2, 3, 0, 1, 1, 4, 0, 4, 2>>)),
   Here(D(<<2, 0, 1, 8, 0, 8, 3, 1, 2, 4, 4, 0, 4, 2>>)),
   Here(D(<<2, 0, 1, 8, 0, 8, 3, 1, 1, 1, 4, 0, 4, 2>>) \o <<".", "5">>),
   Here(D(<<2, 0, 1, 8, 0, 8, 3, 1, 1, 1, 4, 0, 4, 2>>) \o <<"Z">>),
   Here(D(<<2, 0, 1, 8, 0, 8, 3, 1, 1, 1, 4, 0, 4, 2, 7>>))}

\* route-directions that vary the text of the timestamp alone
RouteDirectionsT == {RouteDirectionInput("", t, <<>>) : t \in TimeTexts}

NextTripsInput(e, rds) ==
  [StopNo |-> "3020", StopLabel |-> "LAURIER STATION", Error |-> e, RouteDirection |-> rds]

NextTripsInputs ==
  {NextTripsInput(e, rds) : e \in TopErrors, rds \in SeqsUpTo(RouteDirectionsA, MaxRoutes)}
  \cup {NextTripsInput("", rds) : rds \in WithOne(RouteDirectionsB, RouteDirectionsC, MaxRoutes)}
  \cup {NextTripsInput("", rds) :
          rds \in WithOne(RouteDirectionsT, {RouteDirectionInput("", GoodTime, <<>>)}, MaxRoutes)}

RouteWithTripsInput(n, trips) ==
  [RouteNo |-> n, DirectionID |-> "0", Direction |-> "Eastbound",
   RouteHeading |-> "Airport", Trips |-> trips]

RouteWithTripsInputs ==
  {RouteWithTripsInput("97", trips) : trips \in SeqsUpTo(TripSamples, MaxTrips)}

\* the routes that surround one of RouteWithTripsInputs
RouteWithTripsInputsC ==
  {RouteWithTripsInput("98", trips) : trips \in {<<>>, <<BareTrip, BaseTrip>>}}

AllRoutesInputs ==
  {[StopNo |-> "3020", StopDescription |-> "LAURIER STATION", Error |-> e, Route |-> rts] :
     e \in {"", "10"}, rts \in WithOne(RouteWithTripsInputs, RouteWithTripsInputsC, MaxRoutes)}

RouteInputs ==
  {[RouteNo |-> "6", DirectionID |-> "1", Direction |-> "Northbound", RouteHeading |-> "Rockcliffe"],
   [RouteNo |-> "7", DirectionID |-> "1", Direction |-> "Eastbound", RouteHeading |-> "St-Laurent"],
   [RouteNo |-> "", DirectionID |-> "", Direction |-> "", RouteHeading |-> ""]}

RouteSummaryInputs ==
  {[StopNo |-> "7659", StopDescription |-> "BANK / FIFTH", Error |-> e, Route |-> rts] :
     e \in ErrorTexts, rts \in SeqsUpTo(RouteInputs, MaxRoutes)}

\* ---------------------------------------------------- dispatch bounds
\* last instant of the clock; the connection is constructed at instant 0
MaxTime == 2
\* largest burst size of a rate-limited connection
MaxBurst == 2
\* longest period of a finite rate, in clock ticks per token
MaxPeriod == 2
\* longest timeout of a caller's context, in clock ticks
MaxTimeout == 1
\* new calls are started only while fewer requests than this were dispatched
\* (and while the last reservation of the Limiter falls within MaxTime)
MaxRequests == 2

\* ------------------------------------- golang.org/x/time/rate Limiter
\* A finite rate is one token every `period` clock ticks.  Token amounts
\* are kept in units of 1/period token, so that one tick adds one unit,
\* one token is `period` units and the bucket holds burst * period units.
\* `last` and `lastEvent` are Nil for the zero time.Time.
NewLimiter(inf, period, burst) ==
  [inf |-> inf, period |-> period, burst |-> burst,
   tokens |-> 0, last |-> Nil, lastEvent |-> Nil]

\* (lim *Limiter) advance: the tokens at instant t; the time since the zero
\* time.Time fills any bucket
advance(l, t) ==
  IF l.last = Nil THEN l.burst * l.period
  ELSE Min(l.burst * l.period, l.tokens + (t - Min(l.last[1], t)))

\* variant: a reservation leaves the tokens as they were
reserveN_NoDebit(l, t, waitLimit) ==
  LET reserve(tokens) ==
        LET wait == IF tokens < 0 THEN 0 - tokens ELSE 0
        IN IF 1 <= l.burst /\ (waitLimit = Nil \/ wait <= waitLimit[1])
           THEN [lim |-> [l EXCEPT !.last = Ptr(t), !.tokens = tokens + l.period,
                                   !.lastEvent = Ptr(t + wait)],
                 ok |-> TRUE, timeToAct |-> t + wait]
           ELSE [lim |-> l, ok |-> FALSE, timeToAct |-> t]
  IN IF l.inf THEN [lim |-> l, ok |-> TRUE, timeToAct |-> t]
     ELSE reserve(advance(l, t) - l.period)

\* (lim *Limiter) reserveN(t, 1, waitLimit): takes one token, going into
\* debt when none is left; the reservation may act once the debt is
\* repaid, and is refused when that is later than the wait limit
reserveN(l, t, waitLimit) ==
  LET reserve(tokens) ==
        LET wait == IF tokens < 0 THEN 0 - tokens ELSE 0
        IN IF 1 <= l.burst /\ (waitLimit = Nil \/ wait <= waitLimit[1])
           THEN [lim |-> [l EXCEPT !.last = Ptr(t), !.tokens = tokens,
                                   !.lastEvent = Ptr(t + wait)],
                 ok |-> TRUE, timeToAct |-> t + wait]
           ELSE [lim |-> l, ok |-> FALSE, timeToAct |-> t]
  IN IF l.inf THEN [lim |-> l, ok |-> TRUE, timeToAct |-> t]
     ELSE reserve(advance(l, t) - l.period)

\* (r *Reservation) CancelAt(t) for a reservation of one token that may act
\* at timeToAct: gives back what later reservations have not built on
CancelAt(l, timeToAct, t) ==
  LET restoreTokens == l.period - (l.lastEvent[1] - timeToAct)
      prevEvent == timeToAct - l.period
  IN IF l.inf \/ timeToAct < t \/ restoreTokens <= 0 THEN l
     ELSE [l EXCEPT !.last = Ptr(t),
                    !.tokens = Min(l.burst * l.period, advance(l, t) + restoreTokens),
                    !.lastEvent = IF timeToAct = l.lastEvent[1] /\ prevEvent >= t
                                  THEN Ptr(prevEvent) ELSE l.lastEvent]

\* ------------------------------------------------------------ context
\* a caller's context: `has` is FALSE for a method that takes none
Background == [has |-> TRUE, deadline |-> Nil, canceled |-> FALSE]
NoContext == [has |-> FALSE, deadline |-> Nil, canceled |-> FALSE]

\* <-ctx.Done() is ready
Done(ctx, t) == ctx.has /\ (ctx.canceled \/ (ctx.deadline # Nil /\ t >= ctx.deadline[1]))

\* ctx.Err()
CtxErr(ctx) ==
  Ptr([kind |-> "canceled",
       msg |-> IF ctx.canceled THEN "context canceled" ELSE "context deadline exceeded"])

\* --------------------------------------------------------- url.Values
\* a url.Values with one value per key: a function from its keys to texts
NoValues == [k \in {} |-> ""]
\* variant: a key that has a value keeps it
Set_KeepFirst(v, key, value) ==
  [k \in DOMAIN v \cup {key} |-> IF k \in DOMAIN v THEN v[k] ELSE value]

\* (v Values) Set: the key gets the value, replacing any it had
Set(v, key, value) == [k \in DOMAIN v \cup {key} |-> IF k = key THEN value ELSE v[k]]
Get(v, key) == IF key \in DOMAIN v THEN v[key] ELSE ""

\* the query keys the package uses, in the byte order of sort.Strings
KeyOrder == <<"apiKey", "appID", "column", "direction", "format", "id", "limit",
              "orderBy", "routeNo", "stopNo", "table", "value">>

\* url.QueryEscape and url.QueryUnescape on the texts that need escaping
QueryEscape(s) ==
  CASE s = "a b" -> "a+b"
    [] s = "a&b" -> "a%26b"
    [] OTHER -> s

QueryUnescape(s) ==
  CASE s = "a+b" -> "a b"
    [] s = "a%26b" -> "a&b"
    [] OTHER -> s

\* url.Values.Encode: "key=value" pairs sorted by key, values escaped
Encode(v) ==
  LET keys == SelectSeq(KeyOrder, LAMBDA k : k \in DOMAIN v)
  IN [i \in 1..Len(keys) |-> <<keys[i], QueryEscape(v[keys[i]])>>]

\* url.ParseQuery of an encoded query
RECURSIVE ParseQuery(_, _, _)
ParseQuery(query, i, v) ==
  IF i > Len(query) THEN v
  ELSE ParseQuery(query, i + 1, Set(v, query[i][1], QueryUnescape(query[i][2])))

\* strconv.Itoa
RECURSIVE FormatNat(_)
FormatNat(n) == IF n < 10 THEN DigitChar(n) ELSE FormatNat(n \div 10) \o DigitChar(n % 10)
Itoa(n) == IF n < 0 THEN "-" \o FormatNat(0 - n) ELSE FormatNat(n)

\* ------------------------------------------------------ query options
\* an option value as the caller builds it: the constructor and its arguments
Option(opt, a, b) == [opt |-> opt, a |-> a, b |-> b, n |-> 0]

ConfigError(text) == Ptr([kind |-> "config", msg |-> text])

\* the option functions of the current package; each returns the values it
\* leaves and its error
ID(id, v) == [v |-> Set(v, "id", id), err |-> Nil]
ColumnAndValue(column, value, v) ==
  [v |-> Set(Set(v, "column", column), "value", value), err |-> Nil]
OrderBy(orderBy, v) == [v |-> Set(v, "orderBy", orderBy), err |-> Nil]
Direction(direction, v) ==
  IF direction # "asc" /\ direction # "desc"
  THEN [v |-> v, err |-> ConfigError("direction only accepts asc or desc as parameters")]
  ELSE [v |-> Set(v, "direction", direction), err |-> Nil]
Limit(limit, v) == [v |-> Set(v, "limit", Itoa(limit)), err |-> Nil]
setTable(table, v) == [v |-> Set(v, "table", table), err |-> Nil]

\* the option functions that differ in package octranspoapi
octranspoapi_OrderBy(orderBy, v) ==
  IF orderBy # "asc" /\ orderBy # "desc"
  THEN [v |-> v, err |-> ConfigError("OrderBy only accepts asc or desc as parameters.")]
  ELSE [v |-> Set(v, "orderBy", orderBy), err |-> Nil]
octranspoapi_Direction(direction, v) == [v |-> Set(v, "direction", direction), err |-> Nil]

\* the option functions of the first GTFS client (Setup / GTFSAgency)
Column(column, v) == [v |-> Set(v, "column", column), err |-> Nil]
Value(value, v) == [v |-> Set(v, "value", value), err |-> Nil]
setup_OrderBy(orderBy, v) ==
  IF orderBy # "asc" /\ orderBy # "desc"
  THEN [v |-> v, err |-> ConfigError("OrderBy only accepts asc or desc as parameters.")]
  ELSE [v |-> Set(v, "orderBy", orderBy), err |-> Nil]
setup_Direction(direction, v) == [v |-> Set(v, "direction", direction), err |-> Nil]

\* calling the option function o, built in package pkg, on v
applyOption(pkg, o, v) ==
  CASE o.opt = "ID" -> ID(o.a, v)
    [] o.opt = "ColumnAndValue" -> ColumnAndValue(o.a, o.b, v)
    [] o.opt = "Column" -> Column(o.a, v)
    [] o.opt = "Value" -> Value(o.a, v)
    [] o.opt = "OrderBy" ->
         (CASE pkg = "gooctranspoapi" -> OrderBy(o.a, v)
            [] pkg = "octranspoapi" -> octranspoapi_OrderBy(o.a, v)
            [] pkg = "setup" -> setup_OrderBy(o.a, v))
    [] o.opt = "Direction" ->
         (CASE pkg = "gooctranspoapi" -> Direction(o.a, v)
            [] pkg = "octranspoapi" -> octranspoapi_Direction(o.a, v)
            [] pkg = "setup" -> setup_Direction(o.a, v))
    [] o.opt = "Limit" -> Limit(o.n, v)
    [] o.opt = "setTable" -> setTable(o.a, v)

\* variant: every option function is called, the first error is returned
RECURSIVE applyOptions_Continue(_, _, _, _)
applyOptions_Continue(pkg, options, i, v) ==
  IF i > Len(options) THEN [v |-> v, err |-> Nil, applied |-> Len(options)]
  ELSE LET step(r, rest) ==
             IF r.err # Nil THEN [v |-> NoValues, err |-> r.err, applied |-> rest.applied]
             ELSE rest
       IN step(applyOption(pkg, options[i], v),
               applyOptions_Continue(pkg, options, i + 1, applyOption(pkg, options[i], v).v))

\* "for _, opt := range options { err := opt(v); if err != nil { return nil, err } }"
\* from position i on; applied counts the option functions that were called
RECURSIVE applyOptions(_, _, _, _)
applyOptions(pkg, options, i, v) ==
  IF i > Len(options) THEN [v |-> v, err |-> Nil, applied |-> Len(options)]
  ELSE LET step(r) == IF r.err # Nil THEN [v |-> NoValues, err |-> r.err, applied |-> i]
                      ELSE applyOptions(pkg, options, i + 1, r.v)
       IN step(applyOption(pkg, options[i], v))

\* -------------------------------------------------------- connections
APIURLPrefix == "https://api.octranspo1.com/v1.2/"

\* the constructors: the Connection value and the Limiter it points to
NewConnection(id, key) ==
  [c |-> [pkg |-> "gooctranspoapi", ID |-> id, Key |-> key, HTTPClient |-> "DefaultClient",
          cAPIURLPrefix |-> APIURLPrefix, rateLimit |-> 0],
   Limiter |-> Ptr(NewLimiter(TRUE, 1, 0))]

NewConnectionWithRateLimit(id, key, period, burst) ==
  [c |-> [pkg |-> "gooctranspoapi", ID |-> id, Key |-> key, HTTPClient |-> "DefaultClient",
          cAPIURLPrefix |-> APIURLPrefix, rateLimit |-> 0],
   Limiter |-> Ptr(NewLimiter(FALSE, period, burst))]

\* package octranspoapi: no HTTPClient and no address field
octranspoapi_NewConnection(id, key) ==
  [c |-> [pkg |-> "octranspoapi", ID |-> id, Key |-> key, HTTPClient |-> "DefaultClient",
          cAPIURLPrefix |-> APIURLPrefix, rateLimit |-> 0],
   Limiter |-> Ptr(NewLimiter(TRUE, 1, 0))]

\* Setup(id, key, RateLimit(perSecond)): the first GTFS client keeps the
\* number and has no Limiter
Setup(id, key, perSecond) ==
  [c |-> [pkg |-> "setup", ID |-> id, Key |-> key, HTTPClient |-> "DefaultClient",
          cAPIURLPrefix |-> APIURLPrefix, rateLimit |-> perSecond],
   Limiter |-> Nil]

\* ------------------------------------------------------------ queries
SOAPMethods == {"GetRouteSummaryForStop", "GetNextTripsForStop", "GetNextTripsForStopAllRoutes"}
GTFSMethods == {"GetGTFSAgency", "GetGTFSCalendar", "GetGTFSCalendarDates", "GetGTFSRoutes",
                "GetGTFSStops", "GetGTFSStopTimes", "GetGTFSTrips"}

\* a call of a query method: the method and its arguments
Query(method, routeNo, stopNo, options) ==
  [method |-> method, routeNo |-> routeNo, stopNo |-> stopNo, options |-> options]

NoQuery == Query("", "", "", <<>>)

\* the table each GetGTFS* method appends with setTable
tableOf(method) ==
  CASE method = "GetGTFSAgency" -> "agency"
    [] method = "GetGTFSCalendar" -> "calendar"
    [] method = "GetGTFSCalendarDates" -> "calendar_dates"
    [] method = "GetGTFSRoutes" -> "routes"
    [] method = "GetGTFSStops" -> "stops"
    [] method = "GetGTFSStopTimes" -> "stop_times"
    [] method = "GetGTFSTrips" -> "trips"

Request(verb, addr, query, body, client) ==
  [verb |-> verb, addr |-> addr, query |-> query, body |-> body, client |-> client]

\* the first half of a query method, up to the call of the dispatcher:
\* the request it built, or the error it returns
Prepared(req) == [req |-> Ptr(req), err |-> Nil]
Refused(err) == [req |-> Nil, err |-> err]

\* the three SOAP methods: the form values and the POST request of
\* performRequest
soapRequest(c, q) ==
  LET v0 == Set(Set(Set(NoValues, "appID", c.ID), "apiKey", c.Key), "stopNo", q.stopNo)
      v == IF q.method = "GetNextTripsForStop" THEN Set(v0, "routeNo", q.routeNo) ELSE v0
  IN Prepared(Request("POST", c.cAPIURLPrefix \o q.method, <<>>, Encode(v), c.HTTPClient))

\* (c Connection) setupGTFSURL
setupGTFSURL(c, options) ==
  LET built(r) ==
        IF r.err # Nil THEN [u |-> Nil, err |-> r.err, applied |-> r.applied]
        ELSE [u |-> Ptr([addr |-> APIURLPrefix \o "Gtfs", RawQuery |-> Encode(r.v)]),
              err |-> Nil, applied |-> r.applied]
  IN built(applyOptions(c.pkg, options, 1,
                        Set(Set(Set(NoValues, "appID", c.ID), "apiKey", c.Key),
                            "format", "json")))

\* variant: the stop_times table takes a stop_code where it takes a stop_id
selectorMissing_StopCode(method, v) ==
  CASE method = "GetGTFSStops" ->
         Get(v, "column") # "stop_id" /\ Get(v, "column") # "stop_code" /\ Get(v, "id") = ""
    [] method = "GetGTFSStopTimes" ->
         Get(v, "column") # "trip_id" /\ Get(v, "column") # "stop_code" /\ Get(v, "id") = ""
    [] method = "GetGTFSTrips" ->
         Get(v, "column") # "route_id" /\ Get(v, "id") = ""
    [] OTHER -> FALSE

\* the selector a table requires, checked on the parsed query
selectorMissing(method, v) ==
  CASE method = "GetGTFSStops" ->
         Get(v, "column") # "stop_id" /\ Get(v, "column") # "stop_code" /\ Get(v, "id") = ""
    [] method = "GetGTFSStopTimes" ->
         Get(v, "column") # "trip_id" /\ Get(v, "column") # "stop_id" /\ Get(v, "id") = ""
    [] method = "GetGTFSTrips" ->
         Get(v, "column") # "route_id" /\ Get(v, "id") = ""
    [] OTHER -> FALSE

selectorError(method) ==
  CASE method = "GetGTFSStops" -> ConfigError("a stop_id, stop_code or id value must be specified")
    [] method = "GetGTFSStopTimes" -> ConfigError("a trip_id, stop_id or id value must be specified")
    [] method = "GetGTFSTrips" -> ConfigError("a route_id or id value must be specified")

\* the GetGTFS* methods up to performGTFSRequest, whose GET request goes
\* through http.DefaultClient
gtfsRequest(c, q) ==
  LET built(s) ==
        IF s.err # Nil THEN Refused(s.err)
        ELSE IF selectorMissing(q.method, ParseQuery(s.u[1].RawQuery, 1, NoValues))
          THEN Refused(selectorError(q.method))
        ELSE Prepared(Request("GET", s.u[1].addr, s.u[1].RawQuery, <<>>, "DefaultClient"))
  IN built(setupGTFSURL(c, Append(q.options, Option("setTable", tableOf(q.method), ""))))

\* (c *Connection) setupQuery of the first GTFS client
setupQuery(c) ==
  Set(Set(Set(NoValues, "appID", c.ID), "apiKey", c.Key), "format", "json")

\* (c *Connection) GTFSAgency up to its http.Get
GTFSAgency_request(c, q) ==
  LET built(r) ==
        IF r.err # Nil THEN Refused(r.err)
        ELSE IF Get(r.v, "column") # "" /\ Get(r.v, "value") = ""
          THEN Refused(ConfigError("If a column is specified, a value must also be specified."))
        ELSE Prepared(Request("GET", APIURLPrefix \o "Gtfs", Encode(r.v), <<>>, "DefaultClient"))
  IN built(applyOptions(c.pkg, q.options, 1, Set(setupQuery(c), "table", "agency")))

\* the request a query method builds on connection c
prepare(c, q) ==
  IF q.method = "GTFSAgency" THEN GTFSAgency_request(c, q)
  ELSE IF q.method \in GTFSMethods THEN gtfsRequest(c, q)
  ELSE soapRequest(c, q)

\* ---------------------------------------------------------- responses
\* what the HTTP client returns: a transport error, or a status and a body;
\* a body is a document of the method's format or text that does not decode
\* and `body` says whether a response came with it and in which state: the
\* client returns a response together with an error only when it gives up
\* on redirects, and has closed its body by then
TransportError ==
  [fail |-> TRUE, status |-> 0, decodes |-> FALSE, doc |-> <<>>, body |-> "none"]
RedirectError ==
  [fail |-> TRUE, status |-> 0, decodes |-> FALSE, doc |-> <<>>, body |-> "closed"]
Response(status, decodes, doc) ==
  [fail |-> FALSE, status |-> status, decodes |-> decodes, doc |-> doc, body |-> "open"]

\* variant: a body that fails to decode is left open
bodyOps_DecodeLeak(pkg, resp) ==
  IF resp.fail THEN (IF resp.body = "none" \/ pkg = "setup" THEN <<>> ELSE <<"Close">>)
  ELSE IF resp.status # 200 THEN <<"Close">>
  ELSE IF resp.decodes THEN <<"Read", "Close">>
  ELSE <<"Read">>

\* what a query method does to the body of the client's answer before it
\* returns: "if resp != nil { resp.Body.Close() }" on an error (GTFSAgency
\* returns the error of http.Get at once), Close on a status other than
\* 200, and Decode followed by Close (deferred in GTFSAgency) on 200,
\* whether Decode fails or not; cook reads the decoded value only
bodyOps(pkg, resp) ==
  IF resp.fail THEN (IF resp.body = "none" \/ pkg = "setup" THEN <<>> ELSE <<"Close">>)
  ELSE IF resp.status # 200 THEN <<"Close">>
  ELSE <<"Read", "Close">>

HTTPError(text) == Ptr([kind |-> "transport", msg |-> text])
DecodeError == Ptr([kind |-> "decode", msg |-> "unexpected end of input"])

\* ------------------------------------------------------- encoding/json
\* the JSON values a member of a row may hold
JString(s) == [t |-> "string", s |-> s]
JNumber(s) == [t |-> "number", s |-> s]
JBool(s) == [t |-> "bool", s |-> s]
JNull == [t |-> "null", s |-> "null"]

UnmarshalTypeError ==
  Ptr([kind |-> "decode", msg |-> "json: cannot unmarshal into Go struct field of type string"])

\* variant: text that reads as a number or a boolean is stored in its
\* canonical form
jsonString_Typed(j) ==
  CASE j.t = "string" /\ j.s = "007" -> [s |-> "7", err |-> Nil]
    [] j.t = "string" /\ j.s = "TRUE" -> [s |-> "true", err |-> Nil]
    [] j.t = "string" -> [s |-> j.s, err |-> Nil]
    [] j.t = "null" -> [s |-> "", err |-> Nil]
    [] OTHER -> [s |-> j.s, err |-> Nil]

\* encoding/json storing a JSON value in a field of type string: a JSON
\* string is stored as it is, null leaves the field alone, any other value
\* is skipped and reported as an UnmarshalTypeError
jsonString(j) ==
  CASE j.t = "string" -> [s |-> j.s, err |-> Nil]
    [] j.t = "null" -> [s |-> "", err |-> Nil]
    [] OTHER -> [s |-> "", err |-> UnmarshalTypeError]

\* the members of the elements of "Gtfs" and the fields of GTFSAgency.Gtfs
\* they are stored in
AgencyColumns ==
  <<"id", "agency_name", "agency_url", "agency_timezone", "agency_lang", "agency_phone">>

\* one element of "Gtfs" decoded into the struct of GTFSAgency.Gtfs; a
\* member that is missing leaves its field ""
decodeAgencyRow(w) ==
  LET field(k) == IF k \in DOMAIN w THEN jsonString(w[k]) ELSE [s |-> "", err |-> Nil]
      bad == {i \in 1..Len(AgencyColumns) : field(AgencyColumns[i]).err # Nil}
  IN [row |-> [ID             |-> field("id").s,
               AgencyName     |-> field("agency_name").s,
               AgencyURL      |-> field("agency_url").s,
               AgencyTimezone |-> field("agency_timezone").s,
               AgencyLang     |-> field("agency_lang").s,
               AgencyPhone    |-> field("agency_phone").s],
      err |-> IF bad = {} THEN Nil ELSE UnmarshalTypeError]

\* a decoded GTFS table; encoding/json fills the rows it has read
GTFSTable(rows) == [Gtfs |-> rows]

\* "data := &GTFSAgency{}; err = json.NewDecoder(respBody).Decode(data)" on
\* a well-formed document: every element of "Gtfs" is decoded in order, and
\* the earliest type error is returned after the whole document was read
decodeGTFS(doc) ==
  LET rows == [i \in 1..Len(doc) |-> decodeAgencyRow(doc[i])]
      bad == {i \in 1..Len(doc) : rows[i].err # Nil}
  IN [val |-> Ptr(GTFSTable([i \in 1..Len(doc) |-> rows[i].row])),
      err |-> IF bad = {} THEN Nil ELSE UnmarshalTypeError]

\* the row of TestGTFSAgency with two of its members varied
AgencyRow(id, phone) ==
  [id |-> id, agency_name |-> JString("Test Agency"), agency_url |-> JString("http://test.com"),
   agency_timezone |-> JString("America/Toronto"), agency_lang |-> JString(""),
   agency_phone |-> phone]

\* rows whose members are all strings, some reading as numbers or booleans,
\* and rows with a number, a boolean or null where a string is expected
AgencyRows ==
  {AgencyRow(JString(id), JString(phone)) : id \in {"1", "007", "1e3"}, phone \in {"", "TRUE", "613"}}
  \cup {AgencyRow(JNumber("7"), JString("")), AgencyRow(JString("1"), JBool("true")),
        AgencyRow(JString("1"), JNull),
        [id |-> JString("2"), agency_name |-> JString("Test Agency")]}

GtfsPayloads == SeqsUpTo(AgencyRows, MaxRows)

\* the second half of a SOAP method: decode, then cook
soapResult(method, resp) ==
  IF ~resp.decodes THEN [val |-> Nil, err |-> DecodeError]
  ELSE CASE method = "GetRouteSummaryForStop" ->
              rawRouteSummaryForStop_cook(decodeRouteSummaryForStop(resp.doc[1]))
         [] method = "GetNextTripsForStop" ->
              rawNextTripsForStop_cook(decodeNextTripsForStop(resp.doc[1]), TRUE)
         [] method = "GetNextTripsForStopAllRoutes" ->
              rawNextTripsForStopAllRoutes_cook(decodeNextTripsForStopAllRoutes(resp.doc[1]))

\* the second half of a GetGTFS* method and of GTFSAgency:
\* "data := &T{}; err = Decode(data); return data, err"
gtfsResult(resp) ==
  IF resp.decodes THEN decodeGTFS(resp.doc[1])
  ELSE [val |-> Ptr(GTFSTable(<<>>)), err |-> DecodeError]

\* resp.Status, the status line of the response
StatusText(status) ==
  CASE status = 200 -> "OK"
    [] status = 404 -> "Not Found"
    [] status = 500 -> "Internal Server Error"
Status(status) == Itoa(status) \o " " \o StatusText(status)

\* the text of an encoded query from pair i on: "k=v" joined by "&"
RECURSIVE QueryText(_, _)
QueryText(query, i) ==
  IF i > Len(query) THEN ""
  ELSE (IF i > 1 THEN "&" ELSE "") \o query[i][1] \o "=" \o query[i][2]
       \o QueryText(query, i + 1)

\* u.String(): the address, and the query when there is one
URLString(req) ==
  IF req.verb = "GET" THEN req.addr \o "?" \o QueryText(req.query, 1) ELSE req.addr

\* variant: the status of the response is not looked at
performed_AnyStatus(req, resp) ==
  IF resp.fail THEN [body |-> Nil, err |-> HTTPError("transport")]
  ELSE [body |-> Ptr(resp), err |-> Nil]

\* what performRequest, performGTFSRequest and the exchange in GTFSAgency
\* leave after client.Do: the body of a 200 response, or an error
performed(req, resp) ==
  IF resp.fail THEN [body |-> Nil, err |-> HTTPError("transport")]
  ELSE IF resp.status # 200
    THEN [body |-> Nil,
          err |-> HTTPError("Non 200 HTTP response from API. "
                            \o Status(resp.status) \o " " \o URLString(req))]
  ELSE [body |-> Ptr(resp), err |-> Nil]

\* what a query method returns for the client's answer to its request
result(q, req, resp) ==
  LET got(p) ==
        IF p.err # Nil THEN [val |-> Nil, err |-> p.err]
        ELSE IF q.method \in SOAPMethods THEN soapResult(q.method, p.body[1])
        ELSE gtfsResult(p.body[1])
  IN got(performed(req, resp))

\* ------------------------------------------------------ dispatch inputs
\* the goroutines that call query methods on the one connection
Callers == {"g1", "g2"}

\* the connections of the concurrent specification
Connections ==
  {NewConnection("id", "key")}
  \cup {NewConnectionWithRateLimit("id", "key", p, b) : p \in 1..MaxPeriod, b \in 0..MaxBurst}

\* the connections of the sequential specification, one per package (the
\* connection of NewConnection is in the concurrent specification)
ConnectionsSeq ==
  {NewConnectionWithRateLimit("id", "key", 1, 1),
   octranspoapi_NewConnection("id", "key"), Setup("id", "key", 1)}

\* the contexts of the sequential specification at instant t: never
\* canceled, canceled before the call, or with a timeout; the method of
\* the first GTFS client takes none.  (The concurrent specification passes
\* Background and cancels it at any later moment.)
ContextsSeq(q, t) ==
  IF q.method = "GTFSAgency" THEN {NoContext}
  ELSE {Background, [Background EXCEPT !.canceled = TRUE]}
       \cup {[Background EXCEPT !.deadline = Ptr(t + d)] : d \in 1..MaxTimeout}

\* option lists tried on the tabular methods
LimitOption(n) == [opt |-> "Limit", a |-> "", b |-> "", n |-> n]
OptionLists ==
  {<<>>,
   <<Option("ID", "7", "")>>,
   <<Option("ColumnAndValue", "stop_id", "AA10")>>,
   <<Option("ColumnAndValue", "stop_code", "a b")>>,
   <<Option("ColumnAndValue", "route_id", "")>>,
   <<Option("OrderBy", "asc", "")>>,
   <<Option("OrderBy", "up", "")>>,
   <<Option("OrderBy", "up", ""), Option("ID", "7", "")>>,
   <<Option("ID", "7", ""), Option("Direction", "desc", "")>>,
   <<Option("Direction", "up", ""), Option("ID", "7", "")>>,
   <<Option("ID", "7", ""), LimitOption(10)>>,
   <<Option("setTable", "stops", ""), Option("ID", "a&b", "")>>,
   <<Option("ID", "7", ""), Option("ID", "8", "")>>}

\* option lists of the first GTFS client
OptionListsSetup ==
  {<<>>,
   <<Option("Column", "id", ""), Option("Value", "1", "")>>,
   <<Option("Column", "id", "")>>,
   <<Option("OrderBy", "desc", "")>>,
   <<Option("OrderBy", "up", "")>>,
   <<Option("Direction", "up", ""), LimitOption(10)>>}

\* the calls of the concurrent specification: one goroutine calls a SOAP
\* method, the other a tabular method
Queries(g) ==
  IF g = "g1" THEN {Query("GetNextTripsForStopAllRoutes", "", "3020", <<>>)}
  ELSE {Query("GetGTFSAgency", "", "", <<>>)}

\* the option lists tried on method m: all of them on the agency table and
\* on the tables with a selector check, three on the others
OptionsOf(m) ==
  IF m \in {"GetGTFSCalendar", "GetGTFSCalendarDates", "GetGTFSRoutes"}
  THEN {<<>>,
        <<Option("OrderBy", "up", ""), Option("ID", "7", "")>>,
        <<Option("Direction", "up", ""), Option("ID", "7", "")>>}
  ELSE OptionLists

\* the calls of the sequential specification on a connection of package pkg
QueriesSeq(pkg) ==
  CASE pkg = "setup" -> {Query("GTFSAgency", "", "", o) : o \in OptionListsSetup}
    [] pkg = "octranspoapi" ->
         UNION {{Query(m, "", "", o) : o \in OptionsOf(m)} : m \in GTFSMethods}
    [] pkg = "gooctranspoapi" ->
         UNION {{Query(m, "", "", o) : o \in OptionsOf(m)} : m \in GTFSMethods}
         \cup {Query("GetRouteSummaryForStop", "", "7659", <<>>),
               Query("GetNextTripsForStop", "94", "3020", <<>>),
               Query("GetNextTripsForStopAllRoutes", "", "3020", <<>>)}

AllRoutesDoc(e, rts) ==
  [StopNo |-> "3020", StopDescription |-> "LAURIER STATION", Error |-> e, Route |-> rts]

RouteSummaryDoc(e) ==
  [StopNo |-> "7659", StopDescription |-> "BANK / FIFTH", Error |-> e,
   Route |-> <<[RouteNo |-> "6", DirectionID |-> "1", Direction |-> "Northbound",
                RouteHeading |-> "Rockcliffe"]>>]

\* a response document of the method that decodes and cooks
DocOf(method) ==
  CASE method = "GetRouteSummaryForStop" -> RouteSummaryDoc("")
    [] method = "GetNextTripsForStop" ->
         NextTripsInput("", <<RouteDirectionInput("", GoodTime, <<BaseTrip, BareTrip>>)>>)
    [] method = "GetNextTripsForStopAllRoutes" ->
         AllRoutesDoc("", <<RouteWithTripsInput("97", <<BareTrip>>)>>)
    [] OTHER -> <<AgencyRow(JString("1"), JString(""))>>

\* the response documents of the method: with it, for the SOAP methods, one
\* with a failure code and one with a field that does not parse
DocsOf(method) ==
  {DocOf(method)} \cup
  (CASE method = "GetRouteSummaryForStop" -> {RouteSummaryDoc("10")}
     [] method = "GetNextTripsForStop" ->
          {NextTripsInput("", <<RouteDirectionInput("12", GoodTime, <<>>)>>),
           NextTripsInput("", <<RouteDirectionInput("", GoodTime, <<BadOptionalTrip>>)>>)}
     [] method = "GetNextTripsForStopAllRoutes" ->
          {AllRoutesDoc("10", <<>>),
           AllRoutesDoc("", <<RouteWithTripsInput("97", <<BadMandatoryTrip>>)>>)}
     [] OTHER -> {})

\* the answers of the concurrent specification: failure, refusal, success
Responses(method) ==
  {TransportError, Response(500, FALSE, Nil),
   Response(200, TRUE, Ptr(DocOf(method)))}

\* the answers the HTTP client may give to a request of the method
ResponsesOf(method) ==
  {TransportError, RedirectError, Response(500, FALSE, Nil), Response(404, FALSE, Nil),
   Response(200, FALSE, Nil)}
  \cup {Response(200, TRUE, Ptr(d)) : d \in DocsOf(method)}

\* ------------------------------------------------------------------ state
VARIABLES
  wire,        \* the input under conversion: [shape, doc, tzdata]
  out,         \* what the conversion returned
  ckpc,        \* "raw" before the conversion, "cooked" after it, "off" when unused
  now,         \* the clock, in ticks since the connection was built
  conn,        \* the Connection value
  lim,         \* the Limiter the connection points to (Nil when it has none)
  calls,       \* per goroutine, the query-method call it is in
  dispatched,  \* HTTP requests sent
  heap,        \* the Limiters allocated by constructor calls, by address
  conns,       \* the connections built side by side: [c, Limiter (an address)]
  solo,        \* per connection, its Limiter as its own calls alone leave it
  pend         \* per connection, the reservation a call is waiting for

cookVars == <<wire, out, ckpc>>
dispVars == <<now, conn, lim, calls, dispatched>>
twoVars == <<heap, conns, solo, pend>>
vars == <<wire, out, ckpc, now, conn, lim, calls, dispatched, heap, conns, solo, pend>>

\* no connections are built side by side
TwoOff == heap = <<>> /\ conns = <<>> /\ solo = <<>> /\ pend = <<>>

NoOut == [val |-> Nil, err |-> Nil]

\* a goroutine that is not inside a query method; waits and dos count the
\* reservations the call has made on the Limiter and its calls of client.Do;
\* body is the state in which the client handed over the body of its answer
\* and ops what the method then did to it
IdleCall ==
  [pc |-> "idle", q |-> NoQuery, ctx |-> NoContext, req |-> Nil, timeToAct |-> 0,
   acquired |-> FALSE, sent |-> FALSE, preCancel |-> FALSE, status |-> 0,
   waits |-> 0, dos |-> 0, body |-> "none", ops |-> <<>>, val |-> Nil, err |-> Nil]

\* the connection a behaviour uses is built at instant 0
InitDispatch(built) ==
  /\ now = 0
  /\ conn = built.c
  /\ lim = built.Limiter
  /\ calls = [g \in Callers |-> IdleCall]
  /\ dispatched = 0

\* ---------------------------------------------------- cooking machine
InitCook ==
  /\ InitDispatch(NewConnection("id", "key"))
  /\ TwoOff
  /\ ckpc = "raw"
  /\ out = NoOut
  /\ \/ \E t \in ErrorTexts : wire = [shape |-> "Error", doc |-> t, tzdata |-> TRUE]
     \/ \E w \in TripInputs : wire = [shape |-> "Trip", doc |-> w, tzdata |-> TRUE]
     \/ \E p \in GtfsPayloads : wire = [shape |-> "Gtfs", doc |-> p, tzdata |-> TRUE]
     \/ \E d \in RouteSummaryInputs :
          wire = [shape |-> "RouteSummaryForStop", doc |-> d, tzdata |-> TRUE]
     \/ \E d \in NextTripsInputs, z \in BOOLEAN :
          /\ z \/ d.Error = ""
          /\ wire = [shape |-> "NextTripsForStop", doc |-> d, tzdata |-> z]
     \/ \E d \in AllRoutesInputs :
          wire = [shape |-> "NextTripsForStopAllRoutes", doc |-> d, tzdata |-> TRUE]

CheckError ==
  /\ ckpc = "raw" /\ wire.shape = "Error"
  /\ out' = checkErrorCode(wire.doc)
  /\ ckpc' = "cooked"
  /\ UNCHANGED <<wire, dispVars, twoVars>>

ConvertTrip ==
  /\ ckpc = "raw" /\ wire.shape = "Trip"
  /\ out' = convert(decodeTrip(wire.doc))
  /\ ckpc' = "cooked"
  /\ UNCHANGED <<wire, dispVars, twoVars>>

CookRouteSummary ==
  /\ ckpc = "raw" /\ wire.shape = "RouteSummaryForStop"
  /\ out' = rawRouteSummaryForStop_cook(decodeRouteSummaryForStop(wire.doc))
  /\ ckpc' = "cooked"
  /\ UNCHANGED <<wire, dispVars, twoVars>>

CookNextTrips ==
  /\ ckpc = "raw" /\ wire.shape = "NextTripsForStop"
  /\ out' = rawNextTripsForStop_cook(decodeNextTripsForStop(wire.doc), wire.tzdata)
  /\ ckpc' = "cooked"
  /\ UNCHANGED <<wire, dispVars, twoVars>>

CookAllRoutes ==
  /\ ckpc = "raw" /\ wire.shape = "NextTripsForStopAllRoutes"
  /\ out' = rawNextTripsForStopAllRoutes_cook(decodeNextTripsForStopAllRoutes(wire.doc))
  /\ ckpc' = "cooked"
  /\ UNCHANGED <<wire, dispVars, twoVars>>

\* the body of a GTFS response is decoded; there is no cook for a table
DecodeGtfs ==
  /\ ckpc = "raw" /\ wire.shape = "Gtfs"
  /\ out' = decodeGTFS(wire.doc)
  /\ ckpc' = "cooked"
  /\ UNCHANGED <<wire, dispVars, twoVars>>

NextCook ==
  \/ CheckError \/ ConvertTrip \/ CookRouteSummary \/ CookNextTrips \/ CookAllRoutes
  \/ DecodeGtfs

SpecCook == InitCook /\ [][NextCook]_vars

\* --------------------------------------------------- dispatch machine
\* the query method returns (val, err)
Returned(call, val, err) ==
  [call EXCEPT !.pc = "done", !.val = val, !.err = err,
               !.ctx = NoContext, !.req = Nil, !.timeToAct = 0]

\* Wait found its token: the call goes on to the HTTP client
Acquired(call) == [call EXCEPT !.pc = "do", !.acquired = TRUE]

\* variant: the client sends without looking at the request's context
roundTripRefused_NoContext(ctx, t) == FALSE

\* net/http: the transport refuses a request whose context is done
roundTripRefused(ctx, t) == Done(ctx, t)

\* variant: the method stores the address it called in the Connection
receiverAfter_Rebased(c, q) == [c EXCEPT !.cAPIURLPrefix = c.cAPIURLPrefix \o q.method]

\* the Connection behind the pointer receiver "c *Connection" once a query
\* method has run: the methods read c.ID, c.Key, c.Limiter, c.HTTPClient
\* and c.cAPIURLPrefix and assign to none of them
receiverAfter(c, q) == c

\* variant: the burst is checked whatever the rate
exceedsBurst_AnyRate(l) == 1 > l.burst

\* (lim *Limiter) WaitN: "if n > burst && limit != Inf" for n = 1
exceedsBurst(l) == 1 > l.burst /\ ~l.inf

\* A goroutine calls query q with context ctx.  The method builds its
\* request; the first GTFS client then goes straight to http.Get; the
\* others enter Limiter.Wait, which refuses a burst of 0 on a finite rate
\* and a context that is already done.
StartCall(g, q, ctx) ==
  LET begun == [IdleCall EXCEPT !.q = q, !.ctx = ctx, !.preCancel = Done(ctx, now)]
      entered(p) ==
        IF p.err # Nil THEN Returned(begun, Nil, p.err)
        ELSE IF lim = Nil THEN [begun EXCEPT !.pc = "do", !.req = p.req]
        ELSE IF exceedsBurst(lim[1])
          THEN Returned([begun EXCEPT !.req = p.req], Nil,
                        Ptr([kind |-> "limiter",
                             msg |-> "rate: Wait(n=1) exceeds limiter's burst"]))
        ELSE IF Done(ctx, now) THEN Returned([begun EXCEPT !.req = p.req], Nil, CtxErr(ctx))
        ELSE [begun EXCEPT !.pc = "reserve", !.req = p.req]
  IN /\ calls[g].pc = "idle"
     /\ dispatched < MaxRequests
     /\ (lim # Nil /\ lim[1].lastEvent # Nil) => lim[1].lastEvent[1] <= MaxTime
     /\ calls' = [calls EXCEPT ![g] = entered(prepare(conn, q))]
     /\ conn' = receiverAfter(conn, q)
     /\ UNCHANGED <<cookVars, twoVars, now, lim, dispatched>>

Start ==
  \E g \in Callers : \E q \in Queries(g) : StartCall(g, q, Background)

StartSeq ==
  \E q \in QueriesSeq(conn.pkg) : \E ctx \in ContextsSeq(q, now) : StartCall("g1", q, ctx)

\* Limiter.Wait reserves: the wait limit is what is left of the context's
\* deadline; a refused reservation fails the call, a reservation that may
\* act at once is the token, any other starts a timer
Reserve ==
  \E g \in Callers :
    LET call == calls[g]
        reserved(r) ==
          /\ lim' = Ptr(r.lim)
          /\ calls' = [calls EXCEPT ![g] =
               IF ~r.ok
               THEN Returned(call, Nil,
                             Ptr([kind |-> "limiter",
                                  msg |-> "rate: Wait(n=1) would exceed context deadline"]))
               ELSE IF r.timeToAct = now THEN Acquired([call EXCEPT !.waits = @ + 1])
               ELSE [call EXCEPT !.pc = "waiting", !.timeToAct = r.timeToAct,
                                 !.waits = @ + 1]]
    IN /\ call.pc = "reserve"
       /\ reserved(reserveN(lim[1], now,
                            IF call.ctx.deadline = Nil THEN Nil
                            ELSE Ptr(call.ctx.deadline[1] - now)))
       /\ UNCHANGED <<cookVars, twoVars, now, conn, dispatched>>

\* variant: the timer of a waiting call never fires
timerFired_Never(timeToAct, t) == FALSE

\* time.NewTimer(delay): the timer has fired once the delay has passed
timerFired(timeToAct, t) == t >= timeToAct

\* the timer of Wait fires: "case <-ch: return nil"
WaitTimer ==
  \E g \in Callers :
    /\ calls[g].pc = "waiting"
    /\ timerFired(calls[g].timeToAct, now)
    /\ calls' = [calls EXCEPT ![g] = Acquired(calls[g])]
    /\ UNCHANGED <<cookVars, twoVars, now, conn, lim, dispatched>>

\* the context is done while Wait sleeps:
\* "case <-ctx.Done(): r.Cancel(); return ctx.Err()"
WaitCtxDone ==
  \E g \in Callers :
    /\ calls[g].pc = "waiting"
    /\ Done(calls[g].ctx, now)
    /\ lim' = Ptr(CancelAt(lim[1], calls[g].timeToAct, now))
    /\ calls' = [calls EXCEPT ![g] = Returned(calls[g], Nil, CtxErr(calls[g].ctx))]
    /\ UNCHANGED <<cookVars, twoVars, now, conn, dispatched>>

\* the call hands its request to the HTTP client, which sends it unless
\* the request's context is done
HTTPDo ==
  \E g \in Callers :
    /\ calls[g].pc = "do"
    /\ calls' = [calls EXCEPT ![g] =
         IF roundTripRefused(calls[g].ctx, now)
         THEN Returned([calls[g] EXCEPT !.dos = @ + 1], Nil, CtxErr(calls[g].ctx))
         ELSE [calls[g] EXCEPT !.pc = "inflight", !.sent = TRUE, !.dos = @ + 1]]
    /\ dispatched' = IF roundTripRefused(calls[g].ctx, now) THEN dispatched ELSE dispatched + 1
    /\ UNCHANGED <<cookVars, twoVars, now, conn, lim>>

\* variant: a request that got no usable answer is sent again
afterResponse_Retry(call, r) ==
  IF r.err # Nil /\ r.err[1].kind = "transport" /\ call.dos < 2
  THEN [call EXCEPT !.pc = "do"]
  ELSE Returned(call, r.val, r.err)

\* what the method does with the outcome r of its one exchange: it returns it
afterResponse(call, r) == Returned(call, r.val, r.err)

\* variant: a call that ends with an error gives its token back
limiterAfter_Refund(l, r) ==
  IF l = Nil \/ r.err = Nil THEN l
  ELSE IF l[1].inf THEN l
  ELSE Ptr([l[1] EXCEPT !.tokens = Min(l[1].burst * l[1].period, @ + l[1].period)])

\* the Limiter once the method has dealt with the client's answer: Wait has
\* returned, its Reservation is gone, and no later statement of the method
\* touches c.Limiter
limiterAfter(l, r) == l

\* the client answers resp and the method runs to its return
RespondCall(g, resp) ==
  LET returns(r) ==
        calls' = [calls EXCEPT ![g] =
                    afterResponse([calls[g] EXCEPT !.status = resp.status,
                                                   !.body = resp.body,
                                                   !.ops = bodyOps(conn.pkg, resp)], r)]
        /\ lim' = limiterAfter(lim, r)
  IN /\ calls[g].pc = "inflight"
     /\ returns(result(calls[g].q, calls[g].req[1], resp))
     /\ UNCHANGED <<cookVars, twoVars, now, conn, dispatched>>

Respond ==
  \E g \in Callers : \E resp \in Responses(calls[g].q.method) : RespondCall(g, resp)

RespondSeq ==
  \E resp \in ResponsesOf(calls["g1"].q.method) : RespondCall("g1", resp)

\* the context is done while the request is in flight: the client gives up
RoundTripCanceled ==
  \E g \in Callers :
    /\ calls[g].pc = "inflight"
    /\ Done(calls[g].ctx, now)
    /\ calls' = [calls EXCEPT ![g] = Returned(calls[g], Nil, CtxErr(calls[g].ctx))]
    /\ UNCHANGED <<cookVars, twoVars, now, conn, lim, dispatched>>

\* the caller cancels the context of a call in progress
Cancel ==
  \E g \in Callers :
    /\ calls[g].pc \in {"reserve", "waiting", "do", "inflight"}
    /\ calls[g].ctx.has /\ ~calls[g].ctx.canceled
    /\ calls' = [calls EXCEPT ![g].ctx.canceled = TRUE,
                              ![g].preCancel = @ \/ calls[g].pc \in {"reserve", "waiting"}]
    /\ UNCHANGED <<cookVars, twoVars, now, conn, lim, dispatched>>

\* the clock advances; a deadline may pass
Tick ==
  /\ now < MaxTime
  /\ now' = now + 1
  /\ calls' = [g \in Callers |->
       [calls[g] EXCEPT !.preCancel =
          @ \/ (calls[g].pc \in {"reserve", "waiting"} /\ Done(calls[g].ctx, now + 1))]]
  /\ UNCHANGED <<cookVars, twoVars, conn, lim, dispatched>>

\* the caller has taken the result; the goroutine may call again
Return ==
  \E g \in Callers :
    /\ calls[g].pc = "done"
    /\ calls' = [calls EXCEPT ![g] = IdleCall]
    /\ UNCHANGED <<cookVars, twoVars, now, conn, lim, dispatched>>

\* the cooking machine is switched off in the dispatch specifications
CookOff ==
  /\ wire = [shape |-> "None", doc |-> <<>>, tzdata |-> TRUE]
  /\ out = NoOut
  /\ ckpc = "off"

\* concurrent calls on one connection
Init == CookOff /\ TwoOff /\ \E built \in Connections : InitDispatch(built)

Next ==
  \/ Start \/ Reserve \/ WaitTimer \/ WaitCtxDone \/ HTTPDo
  \/ Respond \/ RoundTripCanceled \/ Cancel \/ Tick \/ Return

Spec == Init /\ [][Next]_vars

\* one goroutine, every query method and option list, every constructor
InitSeq == CookOff /\ TwoOff /\ \E built \in ConnectionsSeq : InitDispatch(built)

NextSeq ==
  \/ StartSeq \/ Reserve \/ WaitTimer \/ WaitCtxDone \/ HTTPDo
  \/ RespondSeq \/ RoundTripCanceled \/ Cancel \/ Tick \/ Return

SpecSeq == InitSeq /\ [][NextSeq]_vars

\* ------------------------------------- a connection the caller has set up
\* a client of the caller's own, and the address of a test server
CustomClient == "CustomClient"
TestServerURL == "http://127.0.0.1:8080/"

\* "c.HTTPClient = client" and "c.cAPIURLPrefix = ts.URL + "/"" applied to
\* the connection a constructor returned, before any query
Swapped(built) ==
  [built EXCEPT !.c.HTTPClient = CustomClient, !.c.cAPIURLPrefix = TestServerURL]

\* one goroutine calls every query method on that connection
InitSwap ==
  CookOff /\ TwoOff /\ InitDispatch(Swapped(NewConnectionWithRateLimit("id", "key", 1, 1)))

SpecSwap == InitSwap /\ [][NextSeq]_vars

\* ------------------------------------------------ calls never canceled
\* the clock advances, and goes on advancing while a call waits for an
\* instant that has not come
TickLive ==
  /\ now < MaxTime \/ \E g \in Callers : calls[g].pc = "waiting" /\ calls[g].timeToAct > now
  /\ now' = now + 1
  /\ UNCHANGED <<cookVars, twoVars, conn, lim, calls, dispatched>>

\* concurrent calls whose contexts are never canceled; the clock runs, the
\* timers of the runtime fire and every goroutine is scheduled
NextLive ==
  \/ Start \/ Reserve \/ WaitTimer \/ HTTPDo \/ Respond \/ TickLive \/ Return

SpecLive ==
  /\ Init /\ [][NextLive]_vars
  /\ WF_vars(TickLive)
  /\ \A g \in Callers :
       /\ WF_vars(Reserve /\ calls[g].pc = "reserve" /\ calls'[g].pc # "reserve")
       /\ WF_vars(WaitTimer /\ calls[g].pc = "waiting" /\ calls'[g].pc = "do")
       /\ WF_vars(HTTPDo /\ calls[g].pc = "do" /\ calls'[g].pc = "inflight")

\* ------------------------------------------- connections side by side
\* the constructors called for the connections built side by side
ConnectionsTwo ==
  {NewConnection("id", "key"), NewConnectionWithRateLimit("id", "key", 1, 1),
   NewConnectionWithRateLimit("id2", "key2", MaxPeriod, MaxBurst)}

\* variant: the Limiter is one object of the process
alloc_Global(h) == 1

\* rate.NewLimiter returns a pointer to a Limiter of its own
alloc(h) == Len(h) + 1

\* the heap with Limiter l at address a
store(h, a, l) == IF a > Len(h) THEN Append(h, l) ELSE [h EXCEPT ![a] = l]

\* a constructor is called: the connection it returns points to the
\* Limiter it made
Construct ==
  \E built \in ConnectionsTwo :
    LET made(a) ==
          /\ heap' = store(heap, a, built.Limiter[1])
          /\ conns' = Append(conns, [c |-> built.c, Limiter |-> a])
    IN /\ Len(conns) < 2
       /\ made(alloc(heap))
       /\ solo' = Append(solo, built.Limiter[1])
       /\ pend' = Append(pend, Nil)
       /\ UNCHANGED <<cookVars, dispVars>>

\* a call on connection i reaches c.Limiter.Wait with a context that has
\* no deadline: it reserves on the Limiter the connection points to
TwoWait ==
  \E i \in 1..Len(conns) :
    LET a == conns[i].Limiter
        reserved(r, rs) ==
          /\ heap' = [heap EXCEPT ![a] = r.lim]
          /\ solo' = [solo EXCEPT ![i] = rs.lim]
          /\ pend' = [pend EXCEPT ![i] =
               IF r.timeToAct = now /\ rs.timeToAct = now THEN Nil
               ELSE Ptr([act |-> r.timeToAct, alone |-> rs.timeToAct])]
    IN /\ pend[i] = Nil
       /\ heap[a].inf \/ heap[a].burst >= 1
       /\ heap[a].lastEvent # Nil => heap[a].lastEvent[1] <= MaxTime
       /\ reserved(reserveN(heap[a], now, Nil), reserveN(solo[i], now, Nil))
       /\ UNCHANGED <<cookVars, dispVars, conns>>

\* the timer of the waiting call on connection i fires
TwoTimer ==
  \E i \in 1..Len(conns) :
    /\ pend[i] # Nil
    /\ now >= pend[i][1].act
    /\ pend' = [pend EXCEPT ![i] = Nil]
    /\ UNCHANGED <<cookVars, dispVars, heap, conns, solo>>

\* the context of the waiting call on connection i is canceled
TwoCancel ==
  \E i \in 1..Len(conns) :
    /\ pend[i] # Nil
    /\ heap' = [heap EXCEPT ![conns[i].Limiter] = CancelAt(@, pend[i][1].act, now)]
    /\ solo' = [solo EXCEPT ![i] = CancelAt(@, pend[i][1].alone, now)]
    /\ pend' = [pend EXCEPT ![i] = Nil]
    /\ UNCHANGED <<cookVars, dispVars, conns>>

InitTwo == CookOff /\ TwoOff /\ InitDispatch(NewConnection("id", "key"))

NextTwo == Construct \/ TwoWait \/ TwoTimer \/ TwoCancel \/ Tick

SpecTwo == InitTwo /\ [][NextTwo]_vars

\* =============================================================== claims
\* a rate-limited connection in the sense of NewConnectionWithRateLimit
\* with a finite rate and a burst of at least 1
RateLimited == lim # Nil /\ ~lim[1].inf /\ lim[1].burst >= 1

\* calls that hold a token they have not used yet
Holding == {g \in Callers : calls[g].pc = "do"}
Waiting == {g \in Callers : calls[g].pc = "waiting"}

\* C1: every HTTP request a query method sends is preceded, within the same
\* call, by a successful acquisition on the connection's Limiter.
C1_GateFirst == \A g \in Callers : calls[g].sent => calls[g].acquired

C3_CancelAborts ==
  \A g \in Callers :
    calls[g].preCancel =>
      /\ ~calls[g].sent
      /\ calls[g].pc = "done" => (calls[g].err # Nil /\ calls[g].val = Nil)

\* the context was canceled while the call waited, the timer won the race,
\* and the call still failed without sending
C3_Witness ==
  /\ calls["g1"].pc = "done" /\ calls["g1"].preCancel /\ calls["g1"].acquired
  /\ ~calls["g1"].sent /\ calls["g1"].err # Nil /\ calls["g1"].err[1].kind = "canceled"

\* C4: a query method returns exactly one of a value and an error.
C4_ValueXorError ==
  \A g \in Callers :
    calls[g].pc = "done" => ((calls[g].err # Nil) <=> (calls[g].val = Nil))

Cooked(shape) == ckpc = "cooked" /\ wire.shape = shape

\* the trips of a response document, whatever its shape
RouteList(doc, shape) == IF shape = "NextTripsForStop" THEN doc.RouteDirection ELSE doc.Route
AnyTrip(doc, shape, P(_)) ==
  \E i \in 1..Len(RouteList(doc, shape)) :
    \E j \in 1..Len(RouteList(doc, shape)[i].Trips) : P(RouteList(doc, shape)[i].Trips[j])

FailureCodes == {"1", "2", "10", "11", "12"}

FailureMessage(code) ==
  CASE code = "1" -> "error returned from API - Invalid API key"
    [] code = "2" -> "error returned from API - Unable to query data source"
    [] code = "10" -> "error returned from API - Invalid stop number"
    [] code = "11" -> "error returned from API - Invalid route number"
    [] code = "12" -> "error returned from API - Stop does not service route"

\* C5: checkErrorCode returns an error exactly for the five texts "1", "2",
\* "10", "11", "12", each with its own message, and returns every other text
\* unchanged with no error.
C5_ErrorCodes ==
  Cooked("Error") =>
    /\ (out.err # Nil) <=> (wire.doc \in FailureCodes)
    /\ wire.doc \in FailureCodes => out.err[1].msg = FailureMessage(wire.doc)
    /\ wire.doc \notin FailureCodes => out.text = wire.doc

C5_Witness ==
  /\ Cooked("Error") /\ wire.doc = "100"
  /\ out.err = Nil /\ out.text = "100"

OptionalFloats == {"Latitude", "Longitude", "GPSSpeed"}

Unparsable(w) ==
  \/ w.LastTripOfSchedule.present /\ w.LastTripOfSchedule.text # <<>>
       /\ ParseBool(w.LastTripOfSchedule.text).err # Nil
  \/ \E f \in OptionalFloats :
       w[f].present /\ w[f].text # <<>> /\ ParseFloat(w[f].text).err # Nil

MandatoryBad(w) ==
  \/ ~w.AdjustedScheduleTime.present
  \/ w.AdjustedScheduleTime.text = <<>>
  \/ Atoi(w.AdjustedScheduleTime.text).err # Nil
  \/ ~w.AdjustmentAge.present
  \/ w.AdjustmentAge.text = <<>>
  \/ ParseFloat(w.AdjustmentAge.text).err # Nil

\* C6: each optional trip field has three outcomes: empty text is absent
\* (Set = FALSE), text that parses is present with the parsed value, text that
\* does not parse fails the conversion and the whole response; an empty
\* optional field alone never causes a failure.
C6_OptionalFields ==
  /\ Cooked("Trip") =>
       LET w == wire.doc
           empty(f) == ~w[f].present \/ w[f].text = <<>>
       IN /\ Unparsable(w) => out.err # Nil
          /\ (~Unparsable(w) /\ ~MandatoryBad(w)) => out.err = Nil
          /\ out.err = Nil =>
               /\ out.ct.LastTripOfSchedule.Set = ~empty("LastTripOfSchedule")
               /\ ~empty("LastTripOfSchedule") =>
                    out.ct.LastTripOfSchedule.Value = ParseBool(w.LastTripOfSchedule.text).val
               /\ \A f \in OptionalFloats :
                    /\ out.ct[f].Set = ~empty(f)
                    /\ ~empty(f) => out.ct[f].Value = ParseFloat(w[f].text).val
  /\ \A shape \in {"NextTripsForStop", "NextTripsForStopAllRoutes"} :
       (Cooked(shape) /\ AnyTrip(wire.doc, shape, Unparsable)) =>
          (out.val = Nil /\ out.err # Nil)

C6_Witness ==
  /\ Cooked("Trip") /\ out.err = Nil
  /\ wire.doc.Latitude.text = <<>> /\ ~out.ct.Latitude.Set
  /\ wire.doc.Longitude.text = <<"1", ".", "1">>
  /\ out.ct.Longitude = [Set |-> TRUE, Value |-> [m |-> 11, e |-> -1]]
  /\ wire.doc.LastTripOfSchedule.text = <<"t">>
  /\ out.ct.LastTripOfSchedule = [Set |-> TRUE, Value |-> TRUE]

\* C7: a trip whose AdjustedScheduleTime or AdjustmentAge is missing, empty
\* or unparsable fails its conversion, and a response of either next-trips
\* shape that holds such a trip anywhere yields an error and no value.
C7_MandatoryFields ==
  /\ (Cooked("Trip") /\ MandatoryBad(wire.doc)) => out.err # Nil
  /\ \A shape \in {"NextTripsForStop", "NextTripsForStopAllRoutes"} :
       (Cooked(shape) /\ AnyTrip(wire.doc, shape, MandatoryBad)) =>
          (out.val = Nil /\ out.err # Nil)

C7_Witness ==
  /\ Cooked("NextTripsForStopAllRoutes")
  /\ wire.doc.Error = ""
  /\ Len(wire.doc.Route) = 2
  /\ wire.doc.Route[1].Trips = <<BareTrip, BaseTrip>>
  /\ wire.doc.Route[2].Trips = <<BaseTrip, BadMandatoryTrip>>
  /\ out.val = Nil /\ out.err # Nil /\ out.err[1].kind = "parse"

\* C8: in a next-trips-for-route response the interpreter runs on the
\* top-level Error and on the Error of every route-direction: a failure code
\* at either level fails the cook, and on success every informational text
\* is carried unchanged at its own place.
C8_ErrorLevels ==
  Cooked("NextTripsForStop") =>
    LET doc == wire.doc
    IN /\ doc.Error \in FailureCodes => (out.val = Nil /\ out.err # Nil)
       /\ (\E i \in 1..Len(doc.RouteDirection) : doc.RouteDirection[i].Error \in FailureCodes)
            => (out.val = Nil /\ out.err # Nil)
       /\ out.err = Nil =>
            /\ out.val[1].Error = doc.Error
            /\ Len(out.val[1].RouteDirections) = Len(doc.RouteDirection)
            /\ \A i \in 1..Len(doc.RouteDirection) :
                 out.val[1].RouteDirections[i].Error = doc.RouteDirection[i].Error

C8_Witness ==
  /\ Cooked("NextTripsForStop") /\ out.err = Nil
  /\ wire.doc.Error = "TestErrorStringHere"
  /\ Len(wire.doc.RouteDirection) = 2
  /\ out.val[1].RouteDirections[1].Error = "TestRouteDirectionErrorHere"
  /\ out.val[1].RouteDirections[2].Error = ""

\* C9: a successful cook keeps the wire order and multiplicity: the Routes
\* or RouteDirections sequence and every Trips sequence have the wire
\* length, and element i is the conversion of wire element i.
C9_WireOrder ==
  /\ (Cooked("NextTripsForStop") /\ out.err = Nil) =>
       LET rds == wire.doc.RouteDirection
           crds == out.val[1].RouteDirections
       IN /\ Len(crds) = Len(rds)
          /\ \A i \in 1..Len(rds) :
               /\ Len(crds[i].Trips) = Len(rds[i].Trips)
               /\ \A j \in 1..Len(rds[i].Trips) :
                    crds[i].Trips[j] = convert(decodeTrip(rds[i].Trips[j])).ct
  /\ (Cooked("NextTripsForStopAllRoutes") /\ out.err = Nil) =>
       LET rts == wire.doc.Route
           crts == out.val[1].Routes
       IN /\ Len(crts) = Len(rts)
          /\ \A i \in 1..Len(rts) :
               /\ crts[i].RouteNo = rts[i].RouteNo
               /\ Len(crts[i].Trips) = Len(rts[i].Trips)
               /\ \A j \in 1..Len(rts[i].Trips) :
                    crts[i].Trips[j] = convert(decodeTrip(rts[i].Trips[j])).ct
  /\ (Cooked("RouteSummaryForStop") /\ out.err = Nil) =>
       /\ Len(out.val[1].Routes) = Len(wire.doc.Route)
       /\ \A i \in 1..Len(wire.doc.Route) : out.val[1].Routes[i] = wire.doc.Route[i]

C9_Witness ==
  /\ Cooked("NextTripsForStopAllRoutes") /\ out.err = Nil
  /\ Len(wire.doc.Route) = 2
  /\ wire.doc.Route[1].RouteNo = "98" /\ wire.doc.Route[2].RouteNo = "97"
  /\ wire.doc.Route[1].Trips = <<BareTrip, BaseTrip>>
  /\ wire.doc.Route[2].Trips = <<BaseTrip, BaseTrip>>
  /\ Len(out.val[1].Routes[2].Trips) = 2
  /\ out.val[1].Routes[1].Trips[1].TripDestination = "LeBreton"

\* the call was given an OrderBy option with a literal other than asc, desc
BadOrderBy(q) ==
  \E i \in 1..Len(q.options) :
    q.options[i].opt = "OrderBy" /\ q.options[i].a \notin {"asc", "desc"}

\* C10: a tabular query given OrderBy with a literal other than "asc" and
\* "desc" fails with a configuration error before dispatch: it acquires no
\* token and sends no request.
C10_OrderByChecked ==
  \A g \in Callers :
    (calls[g].pc # "idle" /\ BadOrderBy(calls[g].q)) =>
      /\ calls[g].pc = "done"
      /\ calls[g].err # Nil /\ calls[g].err[1].kind = "config"
      /\ ~calls[g].acquired /\ ~calls[g].sent

\* the tables whose method checks for a selector, and the columns it takes
SelectorMethods == {"GetGTFSStops", "GetGTFSStopTimes", "GetGTFSTrips"}
RequiredColumns(method) ==
  CASE method = "GetGTFSStops" -> {"stop_id", "stop_code"}
    [] method = "GetGTFSStopTimes" -> {"trip_id", "stop_id"}
    [] method = "GetGTFSTrips" -> {"route_id"}
    [] OTHER -> {}

\* the options of the call give neither an id nor a required column
NoSelector(q) ==
  /\ q.method \in SelectorMethods
  /\ \A i \in 1..Len(q.options) :
       /\ ~(q.options[i].opt = "ID" /\ q.options[i].a # "")
       /\ ~(q.options[i].opt = "ColumnAndValue"
            /\ q.options[i].a \in RequiredColumns(q.method))

\* option function i of the call returns an error, and none before it does
FirstFailing(q, i) ==
  /\ i \in 1..Len(q.options)
  /\ applyOption(conn.pkg, q.options[i], NoValues).err # Nil
  /\ \A j \in 1..(i - 1) : applyOption(conn.pkg, q.options[j], NoValues).err = Nil

\* C11: a tabular call whose options give no selector to a method that
\* requires one, or one of whose option functions returns an error, ends
\* at once with a configuration error, having acquired no token and sent
\* no request; the option functions after the failing one are not called
\* and the error is the failing option's.
C11_ConfigFirst ==
  \A g \in Callers :
    LET q == calls[g].q
    IN (calls[g].pc # "idle" /\ q.method \in GTFSMethods) =>
         /\ (NoSelector(q) \/ \E i \in 1..Len(q.options) : FirstFailing(q, i)) =>
              /\ calls[g].pc = "done"
              /\ calls[g].val = Nil
              /\ calls[g].err # Nil /\ calls[g].err[1].kind = "config"
              /\ ~calls[g].acquired /\ ~calls[g].sent
         /\ \A i \in 1..Len(q.options) :
              FirstFailing(q, i) =>
                /\ setupGTFSURL(conn, Append(q.options,
                                 Option("setTable", tableOf(q.method), ""))).applied = i
                /\ calls[g].err = applyOption(conn.pkg, q.options[i], NoValues).err

\* on a connection with a token in its bucket, GetGTFSStops was called with
\* a failing Direction followed by an ID that would have been a selector
C11_Witness ==
  /\ RateLimited /\ lim[1].last = Nil
  /\ calls["g1"].pc = "done" /\ calls["g1"].q.method = "GetGTFSStops"
  /\ calls["g1"].q.options = <<Option("Direction", "up", ""), Option("ID", "7", "")>>
  /\ calls["g1"].err # Nil /\ calls["g1"].err[1].kind = "config"
  /\ ~calls["g1"].acquired /\ ~calls["g1"].sent

\* C12: a call that received a response with a status other than 200 ends
\* with no value and a transport error whose text carries the status line
\* and the URL of the request; the dispatcher hands no body on.
C12_Non200 ==
  \A g \in Callers :
    (calls[g].pc = "done" /\ calls[g].status \notin {0, 200}) =>
      LET req == prepare(conn, calls[g].q).req[1]
      IN /\ calls[g].sent
         /\ calls[g].val = Nil
         /\ calls[g].err # Nil /\ calls[g].err[1].kind = "transport"
         /\ calls[g].err[1].msg =
              "Non 200 HTTP response from API. " \o Status(calls[g].status)
                \o " " \o URLString(req)
         /\ calls[g].q.method \in SOAPMethods =>
              URLString(req) = conn.cAPIURLPrefix \o calls[g].q.method
         /\ performed(req, Response(calls[g].status, FALSE, Nil)).body = Nil

\* GetGTFSStops(ctx, ID("7")) was answered 404
C12_Witness ==
  /\ calls["g1"].pc = "done" /\ calls["g1"].status = 404
  /\ calls["g1"].q.method = "GetGTFSStops"
  /\ calls["g1"].err # Nil
  /\ calls["g1"].err[1].msg =
       "Non 200 HTTP response from API. 404 Not Found "
         \o "https://api.octranspo1.com/v1.2/Gtfs?apiKey=key&appID=id&format=json&id=7&table=stops"

\* C13: within one call of a query method at most one reservation is made
\* on the Limiter and client.Do is called at most once, whatever the call
\* returns; a call that returned after an answer made exactly one of each
\* (none on a connection without a Limiter).
C13_NoRetry ==
  \A g \in Callers :
    /\ calls[g].waits <= 1 /\ calls[g].dos <= 1
    /\ calls[g].acquired => calls[g].waits = 1
    /\ calls[g].sent => calls[g].dos = 1
    /\ (calls[g].pc = "done" /\ calls[g].err # Nil /\ calls[g].sent) =>
         (calls[g].dos = 1 /\ calls[g].waits = (IF lim = Nil THEN 0 ELSE 1))

\* GetNextTripsForStop ended with a field-parse error after one token and
\* one request
C13_Witness ==
  /\ RateLimited
  /\ calls["g1"].pc = "done" /\ calls["g1"].q.method = "GetNextTripsForStop"
  /\ calls["g1"].status = 200
  /\ calls["g1"].err # Nil /\ calls["g1"].err[1].kind = "parse"
  /\ calls["g1"].waits = 1 /\ calls["g1"].dos = 1

\* C14: connections built by separate constructor calls point to
\* different Limiters, and whatever is reserved, waited for or canceled on
\* the others, the Limiter of each connection is as its own calls alone
\* leave it, and each of its waiting calls may act when it might alone.
C14_SeparateAccounts ==
  \A i \in 1..Len(conns) :
    /\ \A j \in 1..Len(conns) : j # i => conns[j].Limiter # conns[i].Limiter
    /\ heap[conns[i].Limiter] = solo[i]
    /\ pend[i] # Nil => pend[i][1].act = pend[i][1].alone

\* the first connection is in debt with a call waiting, and the second,
\* of the same rate and burst, took its token at once at the same instant
C14_Witness ==
  /\ Len(conns) = 2
  /\ ~heap[conns[1].Limiter].inf /\ heap[conns[1].Limiter].burst = 1
  /\ ~heap[conns[2].Limiter].inf /\ heap[conns[2].Limiter].burst = 1
  /\ pend[1] # Nil /\ pend[1][1].act > now
  /\ pend[2] = Nil /\ heap[conns[2].Limiter].last = Ptr(now)
  /\ heap[conns[2].Limiter].lastEvent = Ptr(now)

\* C15: on a connection with a finite rate and a burst of at least 1, when
\* no context is ever canceled, every call that has entered the gate
\* (reserving or waiting for its reservation) eventually sends its request.
C15_StarvationFree ==
  \A g \in Callers :
    (RateLimited /\ calls[g].pc \in {"reserve", "waiting"}) ~> calls[g].sent

\* a call that had to wait for its reservation has sent its request while
\* the other goroutine's call is still waiting
C15_Witness ==
  /\ RateLimited
  /\ calls["g1"].pc = "inflight" /\ calls["g1"].sent /\ calls["g1"].timeToAct > 0
  /\ calls["g2"].pc = "waiting"

ProcessingTimeTexts ==
  [i \in 1..Len(wire.doc.RouteDirection) |-> wire.doc.RouteDirection[i].RequestProcessingTime.text]

\* fourteen digits YYYYMMDDhhmmss of a calendar date and a time of day; the
\* parser of package time also takes a fractional second after the seconds
MatchesLayout(text) ==
  /\ Len(text) >= 14
  /\ AllDigits(SubSeq(text, 1, 14))
  /\ DigitsVal(SubSeq(text, 5, 6)) \in 1..12
  /\ DigitsVal(SubSeq(text, 7, 8)) \in
       1..daysIn(DigitsVal(SubSeq(text, 5, 6)), DigitsVal(SubSeq(text, 1, 4)))
  /\ DigitsVal(SubSeq(text, 9, 10)) <= 23
  /\ DigitsVal(SubSeq(text, 11, 12)) <= 59
  /\ DigitsVal(SubSeq(text, 13, 14)) <= 59
  /\ Len(text) > 14 =>
       /\ text[15] \in {".", ","}
       /\ Len(text) > 15
       /\ AllDigits(SubSeq(text, 16, Len(text)))

DomainErrors ==
  ({checkErrorCode(wire.doc.Error).err}
   \cup {checkErrorCode(wire.doc.RouteDirection[i].Error).err :
           i \in 1..Len(wire.doc.RouteDirection)}) \ {Nil}

\* C18: when the top-level Error or the Error of any route-direction of a
\* next-trips response holds a failure code, the cook fails with the domain
\* error of such a field, never with the parse error of another field.
C18_ErrorsFirst ==
  (ckpc = "cooked" /\ wire.shape = "NextTripsForStop" /\ wire.tzdata /\ DomainErrors # {}) =>
    /\ out.val = Nil
    /\ out.err \in DomainErrors

\* C19: cooking a route-summary response fails exactly when its top-level
\* Error is a failure code; otherwise the value holds StopNo,
\* StopDescription and the Error text as on the wire and, for every Route in
\* wire order, its RouteNo, DirectionID, Direction and RouteHeading.
C19_RouteSummaryCopied ==
  (ckpc = "cooked" /\ wire.shape = "RouteSummaryForStop") =>
    IF wire.doc.Error \in FailureCodes
    THEN out.val = Nil /\ out.err # Nil /\ out.err[1].kind = "domain"
    ELSE /\ out.err = Nil /\ out.val # Nil
         /\ out.val[1].StopNo = wire.doc.StopNo
         /\ out.val[1].StopDescription = wire.doc.StopDescription
         /\ out.val[1].Error = wire.doc.Error
         /\ Len(out.val[1].Routes) = Len(wire.doc.Route)
         /\ \A i \in 1..Len(wire.doc.Route) :
              /\ out.val[1].Routes[i].RouteNo = wire.doc.Route[i].RouteNo
              /\ out.val[1].Routes[i].DirectionID = wire.doc.Route[i].DirectionID
              /\ out.val[1].Routes[i].Direction = wire.doc.Route[i].Direction
              /\ out.val[1].Routes[i].RouteHeading = wire.doc.Route[i].RouteHeading

\* the response of TestCookRawRouteSummaryForStop has been cooked: routes 6
\* and 7 in that order, with the informational text
C19_Witness ==
  /\ ckpc = "cooked" /\ wire.shape = "RouteSummaryForStop"
  /\ wire.doc.Error = "TestErrorStringHere"
  /\ out.val # Nil /\ out.val[1].Error = "TestErrorStringHere"
  /\ Len(out.val[1].Routes) = 2
  /\ out.val[1].Routes[1].RouteNo = "6" /\ out.val[1].Routes[2].RouteNo = "7"

\* a payload whose rows hold a JSON string in every member
ValidPayload(doc) ==
  \A i \in 1..Len(doc) :
    /\ DOMAIN doc[i] = {AgencyColumns[k] : k \in 1..Len(AgencyColumns)}
    /\ \A k \in DOMAIN doc[i] : doc[i][k].t = "string"

C21_OwnClient ==
  \A g \in Callers :
    (calls[g].sent /\ calls[g].req # Nil) => calls[g].req[1].client = conn.HTTPClient

\* C22: no request of a connection whose base address is not the default
\* address is sent to the default address.
C22_OwnAddress ==
  \A g \in Callers :
    (calls[g].sent /\ calls[g].req # Nil /\ conn.cAPIURLPrefix # APIURLPrefix) =>
      calls[g].req[1].addr \notin {APIURLPrefix \o path : path \in SOAPMethods \cup {"Gtfs"}}

\* the connection was built by NewConnection: its Limiter has the rate Inf
Unlimited == conn.pkg = "gooctranspoapi" /\ lim # Nil /\ lim[1].inf

\* C23: on a connection built by NewConnection no call ever waits at the
\* gate and none is failed by the Limiter, and a call whose context was not
\* done while it was at the gate has been handed to the HTTP client when it
\* returns, whatever the other goroutine is doing.
C23_UnlimitedNeverBlocks ==
  Unlimited =>
    \A g \in Callers :
      /\ calls[g].pc # "waiting"
      /\ calls[g].timeToAct = 0
      /\ calls[g].err # Nil => calls[g].err[1].kind # "limiter"
      /\ (calls[g].pc = "done" /\ calls[g].waits > 0 /\ ~calls[g].preCancel) => calls[g].dos = 1

\* both goroutines have their requests in flight at the instant the
\* connection was built, after an earlier request was already sent
C23_Witness ==
  /\ Unlimited /\ now = 0 /\ dispatched > 2
  /\ \A g \in Callers : calls[g].pc = "inflight" /\ calls[g].sent /\ calls[g].waits = 1

\* the only selector the options of the call give is a required column of
\* the method with the empty value
EmptySelector(q) ==
  /\ q.method \in SelectorMethods
  /\ \E i \in 1..Len(q.options) :
       /\ q.options[i].opt = "ColumnAndValue"
       /\ q.options[i].a \in RequiredColumns(q.method)
       /\ q.options[i].b = ""
  /\ \A i \in 1..Len(q.options) :
       /\ ~(q.options[i].opt = "ID" /\ q.options[i].a # "")
       /\ ~(q.options[i].opt = "ColumnAndValue" /\ q.options[i].b # "")

\* C24: a call of GetGTFSStops, GetGTFSStopTimes or GetGTFSTrips with a
\* required column, an empty value and no id never reaches the gate or the
\* HTTP client, and returns a configuration error and no value.
C24_SelectorValue ==
  \A g \in Callers :
    (calls[g].pc # "idle" /\ EmptySelector(calls[g].q)) =>
      /\ calls[g].waits = 0 /\ ~calls[g].sent
      /\ calls[g].pc = "done" /\ calls[g].val = Nil
      /\ calls[g].err # Nil /\ calls[g].err[1].kind = "config"

OptionsPass(q) ==
  \A i \in 1..Len(q.options) : applyOption(conn.pkg, q.options[i], NoValues).err = Nil

Positions(ops, op) == {i \in 1..Len(ops) : ops[i] = op}

IDOptions(q) == {i \in 1..Len(q.options) : q.options[i].opt = "ID"}

\* the query of the request a call has built, as the server parses it
SentQuery(call) == ParseQuery(call.req[1].query, 1, NoValues)

\* C27: the request of a GetGTFS* method that is being dispatched carries
\* the table of the method, also when a caller's option sets the table, and
\* carries the id of the last of the caller's options that set one.
C27_TableLast ==
  \A g \in Callers :
    (calls[g].pc \in {"reserve", "waiting", "do", "inflight"}
       /\ calls[g].q.method \in GTFSMethods) =>
      /\ Get(SentQuery(calls[g]), "table") = tableOf(calls[g].q.method)
      /\ IDOptions(calls[g].q) # {} =>
           \A i \in IDOptions(calls[g].q) :
             (\A j \in IDOptions(calls[g].q) : j <= i) =>
               Get(SentQuery(calls[g]), "id") = calls[g].q.options[i].a

\* GetGTFSAgency called with an option that sets the table to "stops" has
\* its request in flight
C27_Witness ==
  /\ calls["g1"].pc = "inflight" /\ calls["g1"].q.method = "GetGTFSAgency"
  /\ \E i \in 1..Len(calls["g1"].q.options) :
       calls["g1"].q.options[i].opt = "setTable" /\ calls["g1"].q.options[i].a = "stops"
  /\ Get(SentQuery(calls["g1"]), "table") = "agency"

\* the trips of the value a successful conversion has returned
CookedTrips ==
  IF ckpc # "cooked" \/ out.err # Nil THEN {}
  ELSE CASE wire.shape = "Trip" -> {out.ct}
         [] wire.shape = "NextTripsForStop" ->
              UNION {{out.val[1].RouteDirections[i].Trips[j] :
                        j \in 1..Len(out.val[1].RouteDirections[i].Trips)} :
                     i \in 1..Len(out.val[1].RouteDirections)}
         [] wire.shape = "NextTripsForStopAllRoutes" ->
              UNION {{out.val[1].Routes[i].Trips[j] :
                        j \in 1..Len(out.val[1].Routes[i].Trips)} :
                     i \in 1..Len(out.val[1].Routes)}
         [] OTHER -> {}

\* C28: in every Trip of a successful conversion an optional field that is
\* not set holds the zero value: false for LastTripOfSchedule, 0 for
\* Latitude, Longitude and GPSSpeed.
C28_AbsentIsZero ==
  \A t \in CookedTrips :
    /\ ~t.LastTripOfSchedule.Set => t.LastTripOfSchedule.Value = FALSE
    /\ ~t.Latitude.Set => t.Latitude.Value = FloatZero
    /\ ~t.Longitude.Set => t.Longitude.Value = FloatZero
    /\ ~t.GPSSpeed.Set => t.GPSSpeed.Value = FloatZero

\* the all-routes response of the test has been cooked: a trip whose
\* optional elements are missing or empty
C28_Witness ==
  /\ wire.shape = "NextTripsForStopAllRoutes"
  /\ \E t \in CookedTrips :
       /\ t.TripDestination = "LeBreton"
       /\ ~t.LastTripOfSchedule.Set /\ ~t.Latitude.Set /\ ~t.Longitude.Set /\ ~t.GPSSpeed.Set

\* C29: a step in which a call that holds a token ends (the client fails,
\* answers with another status than 200, or the body fails to decode or to
\* cook, or the call succeeds) or hands its result to the caller leaves the
\* token state of the Limiter as it was.
C29_TokenKept ==
  [][(\E g \in Callers :
        /\ calls[g].acquired
        /\ calls[g].pc \in {"do", "inflight", "done"}
        /\ calls'[g].pc \in {"done", "idle"}
        /\ calls'[g] # calls[g])
     => lim' = lim]_vars

\* a call that took the only token has failed on a status 500, and the
\* bucket is still empty at the same instant
C29_Witness ==
  /\ RateLimited /\ now = 0
  /\ calls["g1"].pc = "done" /\ calls["g1"].acquired /\ calls["g1"].sent
  /\ calls["g1"].status = 500 /\ calls["g1"].err # Nil
  /\ lim[1].last = Ptr(0) /\ lim[1].tokens = 0

\* the outcomes of the checks on one route-direction, in the order Error,
\* RequestProcessingTime (its zone, then its text), trips in wire order
RouteDirectionChecks(rd, tzdata) ==
  <<checkErrorCode(rd.Error).err,
    IF LoadLocation(tzdata).err # Nil THEN LoadLocation(tzdata).err
    ELSE ParseInLocation(rd.RequestProcessingTime, Toronto).err>>
  \o [j \in 1..Len(rd.Trips) |-> convert(rd.Trips[j]).err]

\* the outcomes of all checks on a next-trips response from route-direction
\* i on
RECURSIVE ChecksFrom(_, _, _)
ChecksFrom(rds, i, tzdata) ==
  IF i > Len(rds) THEN <<>>
  ELSE RouteDirectionChecks(rds[i], tzdata) \o ChecksFrom(rds, i + 1, tzdata)

\* the top-level Error, then the route-directions in wire order
CookChecks ==
  LET d == decodeNextTripsForStop(wire.doc)
  IN <<checkErrorCode(d.Error).err>> \o ChecksFrom(d.RouteDirection, 1, wire.tzdata)

\* C30: cooking a next-trips-for-route response returns the error of the
\* first check that fails in the order top-level Error, then per
\* route-direction in wire order its Error, its RequestProcessingTime and
\* its trips in wire order; it returns a value when no check fails.
C30_FirstFailure ==
  (ckpc = "cooked" /\ wire.shape = "NextTripsForStop") =>
    LET failing == {i \in 1..Len(CookChecks) : CookChecks[i] # Nil}
    IN IF failing = {} THEN out.err = Nil /\ out.val # Nil
       ELSE /\ out.val = Nil
            /\ \E i \in failing :
                 /\ \A j \in failing : i <= j
                 /\ out.err = CookChecks[i]

\* a route-direction whose time does not parse comes before one that
\* carries a failure code, and the parse error is what the cook returned
C30_Witness ==
  /\ ckpc = "cooked" /\ wire.shape = "NextTripsForStop" /\ wire.tzdata
  /\ Len(wire.doc.RouteDirection) = 2
  /\ wire.doc.Error = "" /\ wire.doc.RouteDirection[1].Error = ""
  /\ wire.doc.RouteDirection[2].Error = "12"
  /\ out.val = Nil /\ out.err # Nil /\ out.err[1].kind = "parse"

====
